---- MODULE Spec2Model ----
(***************************************************************************)
(* Modem session engine of sim_gui_api.py: the SessionManager registry,    *)
(* ModemSession (open / init / listener loop / close / send_sms /          *)
(* send_ussd), the shared event queue and the GUI consumer that drains it. *)
(*                                                                         *)
(* Caller threads (GUI thread, API request handlers) and listener threads  *)
(* are preemptive: every statement that touches shared state, and every    *)
(* time.sleep, is a point where another thread may run.                    *)
(*                                                                         *)
(* The console script sms_one_com.py (main, send_sms, sms_listener on one  *)
(* serial object) is a second program over the same channel model, the     *)
(* one-shot probes of doc_kit.py, scan_sim_ready.py, scan_phone_number.py  *)
(* and scan_phone_number_ussd.py are a third, and the pure parsers         *)
(* (parse_cmt_header, parse_cnum, extract_msisdn_from_text) are applied to *)
(* texts on their own.                                                     *)
(*                                                                         *)
(* Text is a sequence of tokens (single characters for device lines, whole *)
(* literals for the fixed parts of commands and messages).  An Optional    *)
(* value is <<>> for None and <<v>> for a value v.                         *)
(***************************************************************************)
EXTENDS Integers, Sequences, FiniteSets, TLC

\* ------------------------------------------------------------------ bounds
NThreads == 2
MaxOps == 3
MaxSessions == 2
MaxHandles == 2
MaxFaults == 1
\* the workload of the GUI configuration: one caller thread, a talking modem
GuiOps == 2
GuiEmit == 2
\* the workload of the console script: messages sent from its menu, lines the
\* modem sends
OneComOps == 2
OneComEmit == 2
\* the workload of a one-shot probe: lines the modem sends while it runs
ProbeEmit == 4

Threads == 1..NThreads
SessIds == 1..MaxSessions
HandleIds == 1..MaxHandles
\* every listener thread is started by an open() that created a handle
ListenerIds == 1..MaxHandles

Ports == {"COM3"}
\* sms_one_com.py: PORT = "COM7"
PORT == "COM7"
\* every port a channel is opened on
AllPorts == Ports \cup {PORT}
Phones == {"0901"}
Texts == {"hi"}
UssdCodes == {"*0#"}

\* ------------------------------------------------------------ text helpers
\* the blanks str.strip() removes; a line terminator is one token
Whitespace == {" ", "\t", "\r", "\n", "\f", "\r\n"}

RECURSIVE LStrip(_)
LStrip(s) ==
    IF s = <<>> THEN s
    ELSE IF Head(s) \in Whitespace THEN LStrip(Tail(s)) ELSE s

RECURSIVE RStrip(_)
RStrip(s) ==
    IF s = <<>> THEN s
    ELSE IF s[Len(s)] \in Whitespace THEN RStrip(SubSeq(s, 1, Len(s) - 1)) ELSE s

\* str.strip()
Strip(s) == RStrip(LStrip(s))

\* str.startswith(prefix)
StartsWith(s, prefix) ==
    Len(s) >= Len(prefix) /\ SubSeq(s, 1, Len(prefix)) = prefix

CmtTag == <<"+", "C", "M", "T", ":">>
Quote == "\""

CmtMatchGreedy(line, i) ==
    IF ~(i + 4 <= Len(line) /\ SubSeq(line, i, i + 4) = CmtTag) THEN <<>>
    ELSE
      LET rest == {j \in (i + 5)..Len(line) : line[j] \notin Whitespace}
      IN IF rest = {} THEN <<>>
         ELSE
           LET j == CHOOSE x \in rest : \A y \in rest : x <= y
               closing == {k \in (j + 1)..Len(line) : line[k] = Quote}
           IN IF line[j] # Quote \/ closing = {} THEN <<>>
              ELSE
                LET k == CHOOSE x \in closing : \A y \in closing : x >= y
                IN IF k = j + 1 THEN <<>> ELSE <<SubSeq(line, j + 1, k - 1)>>

\* one attempt of the pattern \+CMT:\s*"([^"]+)" anchored at index i:
\* <<group 1>> on a match, <<>> otherwise
CmtMatchAt(line, i) ==
    IF ~(i + 4 <= Len(line) /\ SubSeq(line, i, i + 4) = CmtTag) THEN <<>>
    ELSE
      LET rest == {j \in (i + 5)..Len(line) : line[j] \notin Whitespace}
      IN IF rest = {} THEN <<>>
         ELSE
           LET j == CHOOSE x \in rest : \A y \in rest : x <= y
               closing == {k \in (j + 1)..Len(line) : line[k] = Quote}
           IN IF line[j] # Quote \/ closing = {} THEN <<>>
              ELSE
                LET k == CHOOSE x \in closing : \A y \in closing : x <= y
                IN IF k = j + 1 THEN <<>> ELSE <<SubSeq(line, j + 1, k - 1)>>

ParseNone(line) == <<>>

\* re.search: the leftmost position at which the pattern matches
parse_cmt_header(line) ==
    LET hits == {i \in 1..Len(line) : CmtMatchAt(line, i) # <<>>}
    IN IF hits = {} THEN <<>>
       ELSE CmtMatchAt(line, CHOOSE i \in hits : \A y \in hits : i <= y)

\* resp += line for every drained line (each ends with its line terminator),
\* then resp.strip()
RECURSIVE JoinLines(_)
JoinLines(ls) ==
    IF ls = <<>> THEN <<>> ELSE Head(ls) \o <<"\r\n">> \o JoinLines(Tail(ls))

\* ------------------------------------------------------------ device lines
LineOK == <<"O", "K">>
LineCmt == <<"+", "C", "M", "T", ":", " ", Quote, "8", "4", Quote, ",">>
LineCmtNoSender == <<"+", "C", "M", "T", ":", " ", "8">>
LineBody == <<"H", "i">>
LineBlank == <<" ">>
DeviceLines == {LineOK, LineCmt, LineCmtNoSender, LineBody, LineBlank}

\* ---------------------------------------------------------------- commands
InitCommands == <<"AT", "AT+CMGF=1", "AT+CSCS=\"GSM\"", "AT+CNMI=2,2,0,0,0">>
NInit == Len(InitCommands)

VARIABLES
    sessions,      \* SessionManager.sessions: port -> session id, 0 = no entry
    mgrLock,       \* SessionManager.lock: holder thread, 0 = free
    nSessions,     \* ModemSession objects constructed so far
    sport,         \* ModemSession.port
    ser,           \* ModemSession.ser: handle id, 0 = None
    running,       \* ModemSession.running
    thread,        \* ModemSession.thread: listener id, 0 = None
    lock,          \* ModemSession.lock: holder thread, 0 = free
    sms_store,     \* ModemSession.sms_store
    nHandles,      \* serial.Serial objects constructed so far
    hport,         \* port of a handle
    hopen,         \* Serial.is_open
    inbuf,         \* per port: lines waiting in the device's input queue
    wire,          \* per port: everything written to the device, in order
    pc, cport, cs, ci, ccall,   \* caller threads: position and locals
    ret,           \* caller threads: outcome of the last finished call
    nCalls,        \* send calls started so far (names the calls on the wire)
    lpc, lsess, lsender,               \* listener threads
    lhdr, lreads, lfault,              \* listener history: header in hand, lines read, fault seen
    event_queue,   \* the queue.Queue shared by the sessions and the GUI
    observed,      \* events the GUI has taken off the queue, in order
    has_queue,     \* SessionManager.gui_queue is a queue (TRUE) or None (FALSE)
    opsLeft, emitLeft, faultsLeft,     \* budgets that bound a run
    stdout,        \* what the console script sms_one_com.py has printed
    fn_in, fn_out, \* a call of a pure function: its argument and its result
    info,          \* the result dict a one-shot probe builds and returns
    ussd_resps     \* what send_ussd_and_wait returned, call after call

vars == <<sessions, mgrLock, nSessions, sport, ser, running, thread, lock, sms_store,
          nHandles, hport, hopen, inbuf, wire, pc, cport, cs, ci, ccall, ret,
          nCalls, lpc, lsess, lsender, lhdr, lreads, lfault, event_queue, observed,
          has_queue, opsLeft, emitLeft, faultsLeft, stdout, fn_in, fn_out, info,
          ussd_resps>>

registryVars == <<sessions, mgrLock, nSessions, sport>>
sessionVars == <<ser, running, thread, lock, sms_store>>
handleVars == <<nHandles, hport, hopen>>
callerVars == <<pc, cport, cs, ci, ccall, ret, nCalls>>
listenerVars == <<lpc, lsess, lsender, lhdr, lreads, lfault>>
budgetVars == <<has_queue, opsLeft, emitLeft, faultsLeft>>
scriptVars == <<stdout, fn_in, fn_out, info, ussd_resps>>

NoPort == "COM3"
\* a returned key list: a copy holding its own items, or a live view of the dict
NoKeys == [view |-> FALSE, items |-> {}]
\* no probe has been called
NoInfo ==
    [fn |-> "none", state |-> "none", ok |-> FALSE, at_ok |-> FALSE, sim_ready |-> FALSE,
     sim_status |-> "", phone_number |-> <<>>, raw_cnum |-> <<>>, raw_ussd |-> <<>>,
     used_ussd |-> <<>>, error |-> ""]
NoRet == [op |-> "none", port |-> NoPort, res |-> "none", sess |-> 0, writes |-> 0,
          keys |-> NoKeys]

\* SessionManager(event_queue_for_gui=queue) and no session yet; a run is
\* bounded by the calls, device lines and I/O faults it may still see
InitWith(queue, ops, emits, faults) ==
    /\ has_queue = queue
    /\ opsLeft = ops
    /\ emitLeft = emits
    /\ faultsLeft = faults
    /\ sessions = [p \in Ports |-> 0]
    /\ mgrLock = 0
    /\ nSessions = 0
    /\ sport = [s \in SessIds |-> NoPort]
    /\ ser = [s \in SessIds |-> 0]
    /\ running = [s \in SessIds |-> FALSE]
    /\ thread = [s \in SessIds |-> 0]
    /\ lock = [s \in SessIds |-> 0]
    /\ sms_store = [s \in SessIds |-> <<>>]
    /\ nHandles = 0
    /\ hport = [h \in HandleIds |-> NoPort]
    /\ hopen = [h \in HandleIds |-> FALSE]
    /\ inbuf = [p \in AllPorts |-> <<>>]
    /\ wire = [p \in AllPorts |-> <<>>]
    /\ pc = [t \in Threads |-> "idle"]
    /\ cport = [t \in Threads |-> NoPort]
    /\ cs = [t \in Threads |-> 0]
    /\ ci = [t \in Threads |-> 0]
    /\ ccall = [t \in Threads |-> 0]
    /\ ret = [t \in Threads |-> NoRet]
    /\ nCalls = 0
    /\ lpc = [l \in ListenerIds |-> "unborn"]
    /\ lsess = [l \in ListenerIds |-> 0]
    /\ lsender = [l \in ListenerIds |-> <<>>]
    /\ lhdr = [l \in ListenerIds |-> <<>>]
    /\ lreads = [l \in ListenerIds |-> <<>>]
    /\ lfault = [l \in ListenerIds |-> FALSE]
    /\ event_queue = <<>>
    /\ observed = <<>>
    /\ stdout = <<>>
    /\ info = NoInfo
    /\ ussd_resps = <<>>

\* the result of a pure function before it is called, and once it returned v
NoOut == [done |-> FALSE, val |-> <<>>]
Out(v) == [done |-> TRUE, val |-> v]

\* no pure function is under test
NoCall == fn_in = <<>> /\ fn_out = NoOut

\* SessionManager() as the API alone uses it: event_queue_for_gui=None, every
\* _push_log finds "if self.event_queue" false and publishes nothing
Init == InitWith(FALSE, MaxOps, 0, MaxFaults) /\ NoCall

\* SimGuiApp.__init__: SessionManager(event_queue_for_gui=self.event_queue)
InitGui == InitWith(TRUE, GuiOps, GuiEmit, MaxFaults) /\ NoCall

\* ----------------------------------------------------------------- helpers
\* self.ser and self.ser.is_open
SerOpen(s) == ser[s] # 0 /\ hopen[ser[s]]

\* handles currently open on port p
OpenHandles(p) == {h \in 1..nHandles : hopen[h] /\ hport[h] = p}

LogEvent(who, src, text) ==
    [type |-> "log", by |-> who, src |-> src, sender |-> <<>>, text |-> text]
SmsEvent(who, sender, text) ==
    [type |-> "sms", by |-> who, src |-> "line", sender |-> sender, text |-> text]

Prefix(p) == <<"[", p, "]", " ">>

\* _push_log: event_queue.put(("log", text))
push_log(q, who, src, text) ==
    IF has_queue THEN Append(q, LogEvent(who, src, text)) ELSE q

\* the result of a finished call
Ret(op, p, res, s, n) ==
    [op |-> op, port |-> p, res |-> res, sess |-> s, writes |-> n, keys |-> NoKeys]

\* a caller returns (or raises) to its idle loop
Return(t, r) ==
    /\ pc' = [pc EXCEPT ![t] = "idle"]
    /\ cs' = [cs EXCEPT ![t] = 0]
    /\ ci' = [ci EXCEPT ![t] = 0]
    /\ ccall' = [ccall EXCEPT ![t] = 0]
    /\ cport' = [cport EXCEPT ![t] = NoPort]
    /\ ret' = [ret EXCEPT ![t] = r]

Goto(t, label) ==
    /\ pc' = [pc EXCEPT ![t] = label]
    /\ UNCHANGED <<cport, cs, ccall, ret>>

\* ------------------------------------------------- SessionManager.connect
\* an I/O fault the driver may raise (bounded per run)
FaultPossible == faultsLeft > 0

\* get_session(port, create_if_missing=True), under the manager's lock:
\* the existing entry, or a new ModemSession that is registered at once
get_session_create(t, p) ==
    /\ mgrLock = 0
    /\ IF sessions[p] # 0
       THEN /\ cs' = [cs EXCEPT ![t] = sessions[p]]
            /\ UNCHANGED <<sessions, nSessions, sport>>
       ELSE /\ nSessions < MaxSessions
            /\ nSessions' = nSessions + 1
            /\ sport' = [sport EXCEPT ![nSessions + 1] = p]
            /\ sessions' = [sessions EXCEPT ![p] = nSessions + 1]
            /\ cs' = [cs EXCEPT ![t] = nSessions + 1]

\* connect(port): s = self.get_session(port, create_if_missing=True)
Connect(t, p) ==
    /\ pc[t] = "idle" /\ opsLeft > 0
    /\ get_session_create(t, p)
    /\ pc' = [pc EXCEPT ![t] = "open_check"]
    /\ cport' = [cport EXCEPT ![t] = p]
    /\ opsLeft' = opsLeft - 1
    /\ UNCHANGED <<mgrLock, sessionVars, handleVars, inbuf, wire, ci, ccall, ret,
                   nCalls, listenerVars, event_queue, observed, has_queue, scriptVars, emitLeft, faultsLeft>>

OpenAlways(s) == FALSE

\* open(): if self.ser and self.ser.is_open: return
AlreadyOpen(s) == SerOpen(s)

OpenCheck(t) ==
    /\ pc[t] = "open_check"
    /\ IF AlreadyOpen(cs[t])
       THEN Return(t, Ret("connect", cport[t], "ok", cs[t], 0))
       ELSE Goto(t, "open_serial") /\ UNCHANGED ci
    /\ UNCHANGED <<registryVars, sessionVars, handleVars, inbuf, wire, nCalls,
                   listenerVars, event_queue, observed, budgetVars, scriptVars>>

\* open(): self.ser = serial.Serial(self.port, ...) succeeds.  The driver does
\* not refuse a port that another handle holds open (no exclusive access is
\* asked for), so success does not depend on OpenHandles.
OpenSerialOk(t) ==
    /\ pc[t] = "open_serial"
    /\ nHandles < MaxHandles
    /\ nHandles' = nHandles + 1
    /\ hport' = [hport EXCEPT ![nHandles + 1] = sport[cs[t]]]
    /\ hopen' = [hopen EXCEPT ![nHandles + 1] = TRUE]
    /\ ser' = [ser EXCEPT ![cs[t]] = nHandles + 1]
    /\ ci' = [ci EXCEPT ![t] = 1]
    /\ Goto(t, "init_write")
    /\ UNCHANGED <<registryVars, running, thread, lock, sms_store, inbuf, wire, nCalls, listenerVars, event_queue, observed, budgetVars, scriptVars>>

\* open(): serial.Serial raises (busy, no permission, no such port); the
\* exception leaves open() and connect()
OpenSerialFail(t) ==
    /\ pc[t] = "open_serial"
    /\ Return(t, Ret("connect", cport[t], "open_error", cs[t], 0))
    /\ UNCHANGED <<registryVars, sessionVars, handleVars, inbuf, wire, nCalls,
                   listenerVars, event_queue, observed, budgetVars, scriptVars>>

\* the text of the init log line: f"[{port}] {cmd} -> {resp!r}"
InitLogText(p, cmd, resp) == Prefix(p) \o <<cmd, " -> ">> \o resp

\* _init_modem_for_sms: except Exception: push_log(error); raise.
\* open() has no handler: the exception leaves connect() with self.ser as it is.
InitRaise(t) ==
    /\ event_queue' = push_log(event_queue, <<"T", t>>, "sys",
                               Prefix(sport[cs[t]]) \o <<"[ERROR] Init modem failed">>)
    /\ Return(t, Ret("connect", cport[t], "init_error", cs[t], 0))

\* _send_at_block, first half: the is_open test, reset_input_buffer,
\* reset_output_buffer, write(cmd.strip() + "\r\n"); then time.sleep(wait)
InitWrite(t) ==
    /\ pc[t] = "init_write"
    /\ LET s == cs[t]
           p == sport[s]
       IN \/ /\ SerOpen(s)
             /\ inbuf' = [inbuf EXCEPT ![p] = <<>>]
             /\ wire' = [wire EXCEPT ![p] =
                           Append(@, [call |-> 0, sess |-> s, by |-> t,
                                      data |-> <<InitCommands[ci[t]], "\r\n">>])]
             /\ Goto(t, "init_drain")
             /\ UNCHANGED <<ci, event_queue, faultsLeft>>
          \/ /\ ~SerOpen(s)
             /\ InitRaise(t)
             /\ UNCHANGED <<inbuf, wire, faultsLeft>>
          \/ /\ SerOpen(s) /\ FaultPossible
             /\ faultsLeft' = faultsLeft - 1
             /\ InitRaise(t)
             /\ UNCHANGED <<inbuf, wire>>
    /\ UNCHANGED <<registryVars, sessionVars, handleVars, nCalls, listenerVars,
                   observed, has_queue, scriptVars, opsLeft, emitLeft>>

\* _send_at_block, second half: while self.ser.in_waiting: resp += readline();
\* return resp.strip(); then the caller's push_log of the response
InitDrain(t) ==
    /\ pc[t] = "init_drain"
    /\ LET s == cs[t]
           p == sport[s]
           resp == Strip(JoinLines(inbuf[p]))
       IN IF SerOpen(s)
          THEN /\ inbuf' = [inbuf EXCEPT ![p] = <<>>]
               /\ event_queue' = push_log(event_queue, <<"T", t>>, "sys",
                                          InitLogText(p, InitCommands[ci[t]], resp))
               /\ IF ci[t] = NInit
                  THEN /\ pc' = [pc EXCEPT ![t] = "open_run"]
                       /\ ci' = [ci EXCEPT ![t] = 0]
                  ELSE /\ pc' = [pc EXCEPT ![t] = "init_write"]
                       /\ ci' = [ci EXCEPT ![t] = ci[t] + 1]
               /\ UNCHANGED <<cport, cs, ccall, ret>>
          ELSE /\ InitRaise(t)
               /\ UNCHANGED inbuf
    /\ UNCHANGED <<registryVars, sessionVars, handleVars, wire, nCalls, listenerVars,
                   observed, budgetVars, scriptVars>>

\* open(): self.running = True; self.thread = Thread(target=_listener_loop);
\* self.thread.start()
OpenRun(t) ==
    /\ pc[t] = "open_run"
    /\ \E l \in ListenerIds :
         /\ lpc[l] = "unborn"
         /\ \A k \in ListenerIds : k < l => lpc[k] # "unborn"
         /\ running' = [running EXCEPT ![cs[t]] = TRUE]
         /\ thread' = [thread EXCEPT ![cs[t]] = l]
         /\ lpc' = [lpc EXCEPT ![l] = "start"]
         /\ lsess' = [lsess EXCEPT ![l] = cs[t]]
    /\ Goto(t, "open_log")
    /\ UNCHANGED <<registryVars, ser, lock, sms_store, handleVars, inbuf, wire, ci, nCalls, lsender, lhdr, lreads, lfault, event_queue, observed, budgetVars, scriptVars>>

\* open(): self._push_log("[SYSTEM] Connected"); connect() returns s
OpenLog(t) ==
    /\ pc[t] = "open_log"
    /\ event_queue' = push_log(event_queue, <<"T", t>>, "sys",
                               Prefix(sport[cs[t]]) \o <<"[SYSTEM] Connected">>)
    /\ Return(t, Ret("connect", cport[t], "ok", cs[t], 0))
    /\ UNCHANGED <<registryVars, sessionVars, handleVars, inbuf, wire, nCalls,
                   listenerVars, observed, budgetVars, scriptVars>>

\* ---------------------------------------------- SessionManager.disconnect
DisconnectMissingNoisy(t, p) ==
    /\ pc[t] = "idle" /\ opsLeft > 0
    /\ mgrLock = 0
    /\ sessions[p] = 0
    /\ opsLeft' = opsLeft - 1
    /\ ret' = [ret EXCEPT ![t] = Ret("disconnect", p, "noop", 0, 0)]
    /\ event_queue' = push_log(event_queue, <<"T", t>>, "sys",
                               Prefix(p) \o <<"[SYSTEM] Disconnected">>)
    /\ UNCHANGED <<registryVars, sessionVars, handleVars, inbuf, wire, pc, cport, cs, ci,
                   ccall, nCalls, listenerVars, observed, has_queue, scriptVars,
                   emitLeft, faultsLeft>>

\* disconnect(port): with self.lock: s = self.sessions.get(port);
\* if not s: return
DisconnectMissing(t, p) ==
    /\ pc[t] = "idle" /\ opsLeft > 0
    /\ mgrLock = 0
    /\ sessions[p] = 0
    /\ opsLeft' = opsLeft - 1
    /\ ret' = [ret EXCEPT ![t] = Ret("disconnect", p, "noop", 0, 0)]
    /\ UNCHANGED <<registryVars, sessionVars, handleVars, inbuf, wire, pc, cport, cs, ci,
                   ccall, nCalls, listenerVars, event_queue, observed, has_queue, scriptVars,
                   emitLeft, faultsLeft>>

\* disconnect(port): the lock is taken and kept for s.close() and the del
DisconnectBegin(t, p) ==
    /\ pc[t] = "idle" /\ opsLeft > 0
    /\ mgrLock = 0
    /\ sessions[p] # 0
    /\ mgrLock' = t
    /\ opsLeft' = opsLeft - 1
    /\ pc' = [pc EXCEPT ![t] = "close_flag"]
    /\ cport' = [cport EXCEPT ![t] = p]
    /\ cs' = [cs EXCEPT ![t] = sessions[p]]
    /\ UNCHANGED <<sessions, nSessions, sport, sessionVars, handleVars, inbuf, wire, ci,
                   ccall, ret, nCalls, listenerVars, event_queue, observed,
                   has_queue, scriptVars, emitLeft, faultsLeft>>

\* close(): self.running = False; then, if the thread is alive, time.sleep(0.2)
CloseFlag(t) ==
    /\ pc[t] = "close_flag"
    /\ running' = [running EXCEPT ![cs[t]] = FALSE]
    /\ Goto(t, "close_ser")
    /\ UNCHANGED <<registryVars, ser, thread, lock, sms_store, handleVars, inbuf, wire,
                   ci, nCalls, listenerVars, event_queue, observed, budgetVars, scriptVars>>

\* close(): if self.ser and self.ser.is_open: self.ser.close();
\* self._push_log("[SYSTEM] Disconnected") -- logged whether or not a port was
\* closed.  The device's input queue is dropped when its last handle closes.
CloseSer(t) ==
    /\ pc[t] = "close_ser"
    /\ hopen' = IF SerOpen(cs[t]) THEN [hopen EXCEPT ![ser[cs[t]]] = FALSE] ELSE hopen
    /\ inbuf' = IF SerOpen(cs[t]) /\ OpenHandles(sport[cs[t]]) = {ser[cs[t]]}
                THEN [inbuf EXCEPT ![sport[cs[t]]] = <<>>] ELSE inbuf
    /\ event_queue' = push_log(event_queue, <<"T", t>>, "sys",
                               Prefix(sport[cs[t]]) \o <<"[SYSTEM] Disconnected">>)
    /\ Goto(t, "disc_del")
    /\ UNCHANGED <<registryVars, sessionVars, nHandles, hport, wire, ci, nCalls,
                   listenerVars, observed, budgetVars, scriptVars>>

DisconnectKeep(t) ==
    /\ pc[t] = "disc_del"
    /\ mgrLock' = 0
    /\ Return(t, Ret("disconnect", cport[t], "ok", cs[t], 0))
    /\ UNCHANGED <<sessions, nSessions, sport, sessionVars, handleVars, inbuf, wire,
                   nCalls, listenerVars, event_queue, observed, budgetVars, scriptVars>>

\* disconnect(port): del self.sessions[port]; the lock is released
DisconnectDel(t) ==
    /\ pc[t] = "disc_del"
    /\ sessions' = [sessions EXCEPT ![cport[t]] = 0]
    /\ mgrLock' = 0
    /\ Return(t, Ret("disconnect", cport[t], "ok", cs[t], 0))
    /\ UNCHANGED <<nSessions, sport, sessionVars, handleVars, inbuf, wire, nCalls,
                   listenerVars, event_queue, observed, budgetVars, scriptVars>>

\* ------------------------------------------- SessionManager.list_sessions
keys_view(d) == [view |-> TRUE, items |-> {}]

\* list(self.sessions.keys()): a new list holding the keys of this instant
list_keys(d) == [view |-> FALSE, items |-> {p \in DOMAIN d : d[p] # 0}]

\* what iterating a returned key list yields: a copy gives its items, a view
\* gives the keys the dict has at the time of the iteration
Items(k) == IF k.view THEN {p \in Ports : sessions[p] # 0} ELSE k.items

\* the same, iterated in the state a step leads to
ItemsAfter(k) == IF k.view THEN {p \in Ports : sessions'[p] # 0} ELSE k.items

\* list_sessions(): with self.lock: return list(self.sessions.keys())
ListSessions(t) ==
    /\ pc[t] = "idle" /\ opsLeft > 0
    /\ mgrLock = 0
    /\ opsLeft' = opsLeft - 1
    /\ ret' = [ret EXCEPT ![t] =
                 [Ret("list_sessions", NoPort, "ok", 0, 0) EXCEPT !.keys = list_keys(sessions)]]
    /\ UNCHANGED <<registryVars, sessionVars, handleVars, inbuf, wire, pc, cport, cs, ci,
                   ccall, nCalls, listenerVars, event_queue, observed, has_queue, scriptVars,
                   emitLeft, faultsLeft>>

\* ------------------------------------------------------ outbound operations
\* get_session(port): the caller's lookup (api_send_sms, on_send_sms); a
\* missing entry is answered "not connected" without reaching the session
SendLookupMissing(t, p) ==
    /\ pc[t] = "idle" /\ opsLeft > 0
    /\ mgrLock = 0
    /\ sessions[p] = 0
    /\ opsLeft' = opsLeft - 1
    /\ ret' = [ret EXCEPT ![t] = Ret("send", p, "no_session", 0, 0)]
    /\ UNCHANGED <<registryVars, sessionVars, handleVars, inbuf, wire, pc, cport, cs, ci,
                   ccall, nCalls, listenerVars, event_queue, observed, has_queue, scriptVars,
                   emitLeft, faultsLeft>>

SendBegin(t, p, first) ==
    /\ pc[t] = "idle" /\ opsLeft > 0
    /\ mgrLock = 0
    /\ sessions[p] # 0
    /\ opsLeft' = opsLeft - 1
    /\ nCalls' = nCalls + 1
    /\ pc' = [pc EXCEPT ![t] = first]
    /\ cport' = [cport EXCEPT ![t] = p]
    /\ cs' = [cs EXCEPT ![t] = sessions[p]]
    /\ ccall' = [ccall EXCEPT ![t] = nCalls + 1]
    /\ UNCHANGED <<registryVars, sessionVars, handleVars, inbuf, wire, ci, ret,
                   listenerVars, event_queue, observed, has_queue, scriptVars, emitLeft, faultsLeft>>

\* s = session_manager.get_session(port); s.send_sms(phone, text)
SendSmsBegin(t, p) == SendBegin(t, p, "sms_check")

\* s = session_manager.get_session(port); s.send_ussd(code)
SendUssdBegin(t, p) == SendBegin(t, p, "ussd_check")

PreconditionNever(s) == FALSE

\* send_sms / send_ussd: if not self.ser or not self.ser.is_open
NotConnected(s) == ~SerOpen(s)

\* send_sms / send_ussd: raise RuntimeError("Modem not connected"), else go on
SendCheck(t, here, next, op) ==
    /\ pc[t] = here
    /\ IF NotConnected(cs[t])
       THEN Return(t, Ret(op, cport[t], "not_connected", cs[t], 0))
       ELSE Goto(t, next) /\ UNCHANGED ci
    /\ UNCHANGED <<registryVars, sessionVars, handleVars, inbuf, wire, nCalls,
                   listenerVars, event_queue, observed, budgetVars, scriptVars>>

SmsCheck(t) == SendCheck(t, "sms_check", "sms_w1", "send_sms")

UssdCheck(t) == SendCheck(t, "ussd_check", "ussd_w1", "send_ussd")

LockIgnored(s, t) == TRUE

\* with self.lock: the calling thread gets the lock when no other holds it
\* (threading.Lock); a thread between its own writes already holds it
LockAvailable(s, t) == lock[s] \in {0, t}

SmsWritesSwapped(phone, text) ==
    << <<"AT+CMGS=", Quote, phone, Quote, "\r">>,
       <<"AT+CMGF=1", "\r">>,
       <<text, "^Z">> >>

\* the payloads of send_sms and of send_ussd, in the order they are written
SmsWrites(phone, text) ==
    << <<"AT+CMGF=1", "\r">>,
       <<"AT+CMGS=", Quote, phone, Quote, "\r">>,
       <<text, "^Z">> >>

UssdWrites(code) ==
    << <<"AT+CSCS=\"GSM\"", "\r">>,
       <<"AT+CUSD=1,", Quote, code, Quote, ",15", "\r">> >>

\* one self.ser.write(...) of a send call, number k of n, inside "with
\* self.lock".  The first write follows the lock's acquisition; after the last
\* the lock is released and the call logs and returns.  A write on a closed
\* port raises: the with block releases the lock and the exception leaves the
\* call.  Between two writes the call sleeps.
SendWrite(t, op, k, writes, logText) ==
    /\ pc[t] = (IF op = "send_sms" THEN "sms_w" ELSE "ussd_w") \o ToString(k)
    /\ LET s == cs[t]
           p == sport[s]
           n == Len(writes)
       IN /\ LockAvailable(s, t)
          /\ IF SerOpen(s)
             THEN /\ wire' = [wire EXCEPT ![p] =
                                Append(@, [call |-> ccall[t], sess |-> s, by |-> t,
                                           data |-> writes[k]])]
                  /\ IF k = n
                     THEN /\ lock' = [lock EXCEPT ![s] = 0]
                          /\ event_queue' = push_log(event_queue, <<"T", t>>, "sys",
                                                     Prefix(p) \o logText)
                          /\ Return(t, Ret(op, cport[t], "ok", s, n))
                     ELSE /\ lock' = [lock EXCEPT ![s] = t]
                          /\ pc' = [pc EXCEPT ![t] =
                                      (IF op = "send_sms" THEN "sms_w" ELSE "ussd_w")
                                        \o ToString(k + 1)]
                          /\ UNCHANGED <<cport, cs, ci, ccall, ret, event_queue>>
             ELSE /\ lock' = [lock EXCEPT ![s] = 0]
                  /\ Return(t, Ret(op, cport[t], "write_error", s, k - 1))
                  /\ UNCHANGED <<wire, event_queue>>
    /\ UNCHANGED <<registryVars, ser, running, thread, sms_store, handleVars, inbuf,
                   nCalls, listenerVars, observed, budgetVars, scriptVars>>

\* send_sms: AT+CMGF=1, sleep, AT+CMGS="<phone>", sleep, <text> Ctrl-Z
SmsWrite(t, k) ==
    \E phone \in Phones, text \in Texts :
        SendWrite(t, "send_sms", k, SmsWrites(phone, text),
                  <<"[SEND_SMS] To ", phone, ": ", text>>)

\* send_ussd: AT+CSCS="GSM", sleep, AT+CUSD=1,"<code>",15
UssdWrite(t, k) ==
    \E code \in UssdCodes :
        SendWrite(t, "send_ussd", k, UssdWrites(code), <<"[USSD] Sent ", code>>)

\* ------------------------------------------------------------ listener loop
\* _listener_loop: self._push_log("[LISTENER] Start listening...")
ListenerStart(l) ==
    /\ lpc[l] = "start"
    /\ event_queue' = push_log(event_queue, <<"L", l>>, "sys",
                               Prefix(sport[lsess[l]]) \o <<"[LISTENER] Start listening...">>)
    /\ lpc' = [lpc EXCEPT ![l] = "check"]
    /\ UNCHANGED <<registryVars, sessionVars, handleVars, inbuf, wire, callerVars, lsess,
                   lsender, lhdr, lreads, lfault, observed, budgetVars, scriptVars>>

\* while self.running and self.ser and self.ser.is_open: enter readline();
\* otherwise finally: self._push_log("[LISTENER] Stopped.") and the thread ends
ListenerCheck(l) ==
    /\ lpc[l] = "check"
    /\ IF running[lsess[l]] /\ SerOpen(lsess[l])
       THEN /\ lpc' = [lpc EXCEPT ![l] = "read"]
            /\ UNCHANGED event_queue
       ELSE /\ lpc' = [lpc EXCEPT ![l] = "dead"]
            /\ event_queue' = push_log(event_queue, <<"L", l>>, "sys",
                                       Prefix(sport[lsess[l]]) \o <<"[LISTENER] Stopped.">>)
    /\ UNCHANGED <<registryVars, sessionVars, handleVars, inbuf, wire, callerVars, lsess,
                   lsender, lhdr, lreads, lfault, observed, budgetVars, scriptVars>>

ListenerFaultDies(l) ==
    /\ lpc' = [lpc EXCEPT ![l] = "dead"]
    /\ lfault' = [lfault EXCEPT ![l] = TRUE]
    /\ lsender' = [lsender EXCEPT ![l] = <<>>]
    /\ lhdr' = [lhdr EXCEPT ![l] = <<>>]
    /\ UNCHANGED <<event_queue, inbuf, lreads, sms_store>>

\* except Exception as e: push_log("[LISTENER ERROR] ..."); time.sleep(0.5);
\* the loop goes on with its condition
ListenerFault(l) ==
    /\ event_queue' = push_log(event_queue, <<"L", l>>, "sys",
                               Prefix(sport[lsess[l]]) \o <<"[LISTENER ERROR]">>)
    /\ lpc' = [lpc EXCEPT ![l] = "check"]
    /\ lfault' = [lfault EXCEPT ![l] = TRUE]
    /\ lsender' = [lsender EXCEPT ![l] = <<>>]
    /\ lhdr' = [lhdr EXCEPT ![l] = <<>>]
    /\ UNCHANGED <<inbuf, lreads, sms_store>>

\* the first readline() of an iteration returned raw (b"" on a timeout)
ListenerLine(l, raw) ==
    LET line == Strip(raw)
    IN IF line = <<>>
       THEN \* if not line_bytes: continue / if not line: continue
            /\ lpc' = [lpc EXCEPT ![l] = "check"]
            /\ UNCHANGED <<event_queue, lsender, lhdr>>
       ELSE IF StartsWith(line, CmtTag)
       THEN \* sender = parse_cmt_header(line); then the second readline()
            /\ lpc' = [lpc EXCEPT ![l] = "body"]
            /\ lsender' = [lsender EXCEPT ![l] = parse_cmt_header(line)]
            /\ lhdr' = [lhdr EXCEPT ![l] = line]
            /\ UNCHANGED event_queue
       ELSE \* self._push_log(f"[{self.port}] {line}")
            /\ lpc' = [lpc EXCEPT ![l] = "check"]
            /\ event_queue' = push_log(event_queue, <<"L", l>>, "line",
                                       Prefix(sport[lsess[l]]) \o line)
            /\ UNCHANGED <<lsender, lhdr>>

\* line_bytes = self.ser.readline() returns: the next waiting line, or b""
\* when the read timeout passes with the input queue empty; on a closed port,
\* or on an I/O fault, it raises
ListenerRead(l) ==
    /\ lpc[l] = "read"
    /\ LET s == lsess[l]
           p == sport[s]
       IN \/ /\ SerOpen(s) /\ inbuf[p] # <<>>
             /\ inbuf' = [inbuf EXCEPT ![p] = Tail(@)]
             /\ lreads' = [lreads EXCEPT ![l] =
                             IF Strip(Head(inbuf[p])) = <<>> THEN @ ELSE Append(@, Head(inbuf[p]))]
             /\ ListenerLine(l, Head(inbuf[p]))
             /\ UNCHANGED <<lfault, sms_store, faultsLeft>>
          \/ /\ SerOpen(s) /\ inbuf[p] = <<>>
             /\ lpc' = [lpc EXCEPT ![l] = "check"]
             /\ UNCHANGED <<inbuf, event_queue, lsender, lhdr, lreads, lfault, sms_store,
                            faultsLeft>>
          \/ /\ ~SerOpen(s)
             /\ ListenerFault(l)
             /\ UNCHANGED faultsLeft
          \/ /\ SerOpen(s) /\ FaultPossible
             /\ faultsLeft' = faultsLeft - 1
             /\ ListenerFault(l)
    /\ UNCHANGED <<registryVars, ser, running, thread, lock, handleVars, wire, callerVars,
                   lsess, observed, has_queue, scriptVars, opsLeft, emitLeft>>

PushSmsUnlessEmpty(l, sender, text) ==
    event_queue' = IF has_queue /\ text # <<>>
                   THEN Append(event_queue, SmsEvent(<<"L", l>>, sender, text))
                   ELSE event_queue

\* _push_sms, first statement: if self.event_queue:
\* self.event_queue.put(("sms", sender, text))
push_sms(l, sender, text) ==
    event_queue' = IF has_queue
                   THEN Append(event_queue, SmsEvent(<<"L", l>>, sender, text))
                   ELSE event_queue

\* the inbox record of _push_sms (the timestamp is left out)
SmsRecord(l) ==
    [port |-> sport[lsess[l]], sender |-> lsender[l],
     text |-> Strip(lreads[l][Len(lreads[l])])]

\* with self.sms_store_lock: self.sms_store.append({...})
StoreAppend(st, rec) == Append(st, rec)

\* _push_sms, second statement: the record of the message just published is
\* appended to the inbox under sms_store_lock; the iteration ends
ListenerStore(l) ==
    /\ lpc[l] = "store"
    /\ sms_store' = [sms_store EXCEPT ![lsess[l]] = StoreAppend(@, SmsRecord(l))]
    /\ lpc' = [lpc EXCEPT ![l] = "check"]
    /\ lsender' = [lsender EXCEPT ![l] = <<>>]
    /\ lhdr' = [lhdr EXCEPT ![l] = <<>>]
    /\ UNCHANGED <<registryVars, ser, running, thread, lock, handleVars, inbuf, wire,
                   callerVars, lsess, lreads, lfault, event_queue, observed, budgetVars,
                   scriptVars>>

\* text_line = self.ser.readline().decode().strip(); self._push_sms(sender, text_line)
ListenerBody(l) ==
    /\ lpc[l] = "body"
    /\ LET s == lsess[l]
           p == sport[s]
           done == /\ lpc' = [lpc EXCEPT ![l] = "store"]
                   /\ UNCHANGED <<lsender, lhdr, sms_store>>
       IN \/ /\ SerOpen(s) /\ inbuf[p] # <<>>
             /\ inbuf' = [inbuf EXCEPT ![p] = Tail(@)]
             /\ lreads' = [lreads EXCEPT ![l] = Append(@, Head(inbuf[p]))]
             /\ push_sms(l, lsender[l], Strip(Head(inbuf[p])))
             /\ done
             /\ UNCHANGED <<lfault, faultsLeft>>
          \/ /\ SerOpen(s) /\ inbuf[p] = <<>>
             /\ lreads' = [lreads EXCEPT ![l] = Append(@, <<>>)]
             /\ push_sms(l, lsender[l], <<>>)
             /\ done
             /\ UNCHANGED <<inbuf, lfault, faultsLeft>>
          \/ /\ ~SerOpen(s)
             /\ ListenerFault(l)
             /\ UNCHANGED faultsLeft
          \/ /\ SerOpen(s) /\ FaultPossible
             /\ faultsLeft' = faultsLeft - 1
             /\ ListenerFault(l)
    /\ UNCHANGED <<registryVars, ser, running, thread, lock, handleVars, wire, callerVars,
                   lsess, observed, has_queue, scriptVars, opsLeft, emitLeft>>

\* ------------------------------------------------------- device and the GUI
\* the modem sends a line (a reply or an unsolicited notification) while some
\* handle holds its port open
DeviceEmit(line) ==
    /\ emitLeft > 0
    /\ \E p \in AllPorts :
         /\ OpenHandles(p) # {}
         /\ inbuf' = [inbuf EXCEPT ![p] = Append(@, line)]
    /\ emitLeft' = emitLeft - 1
    /\ UNCHANGED <<registryVars, sessionVars, handleVars, wire, callerVars, listenerVars,
                   event_queue, observed, has_queue, scriptVars, opsLeft, faultsLeft>>

PollLast(q) == <<q[Len(q)], SubSeq(q, 1, Len(q) - 1)>>

\* queue.Queue.get_nowait(): the oldest event and the rest of the queue
get_nowait(q) == <<Head(q), Tail(q)>>

\* _poll_events: event = self.event_queue.get_nowait(); append_log / append_sms
PollEvents ==
    /\ event_queue # <<>>
    /\ observed' = Append(observed, get_nowait(event_queue)[1])
    /\ event_queue' = get_nowait(event_queue)[2]
    /\ UNCHANGED <<registryVars, sessionVars, handleVars, inbuf, wire, callerVars,
                   listenerVars, budgetVars, scriptVars>>

\* -------------------------------------------------------- sms_one_com.py
\* main() runs on thread 1, holds the one serial.Serial object it creates and
\* starts the one sms_listener thread
MainThread == 1
MainSer == 1
SmsListener == 1

\* a print(...) of the script
Console(tag, a, b) == [tag |-> tag, a |-> a, b |-> b]

\* what no step of the script touches
OneComFrame ==
    UNCHANGED <<registryVars, sessionVars, cport, cs, ret, lsess, lfault, event_queue,
                observed, has_queue, emitLeft, fn_in, fn_out, info, ussd_resps>>

\* main: ser = serial.Serial(PORT, BAUDRATE, timeout=TIMEOUT); print("Opened")
main_open ==
    /\ pc[MainThread] = "idle" /\ nHandles = 0
    /\ nHandles' = MainSer
    /\ hport' = [hport EXCEPT ![MainSer] = PORT]
    /\ hopen' = [hopen EXCEPT ![MainSer] = TRUE]
    /\ stdout' = Append(stdout, Console("MAIN", <<"Opened">>, <<>>))
    /\ pc' = [pc EXCEPT ![MainThread] = "oc_init_write"]
    /\ ci' = [ci EXCEPT ![MainThread] = 1]
    /\ UNCHANGED <<inbuf, wire, ccall, nCalls, lpc, lsender, lhdr, lreads, opsLeft,
                   faultsLeft>>
    /\ OneComFrame

\* main: except Exception as e: print("[MAIN] Error opening ...") -- the one
\* handler of main, reached from any raise; the port is left as it is
main_except ==
    /\ stdout' = Append(stdout, Console("MAIN", <<"Error">>, <<>>))
    /\ pc' = [pc EXCEPT ![MainThread] = "oc_done"]

\* main: serial.Serial raises
main_open_fail ==
    /\ pc[MainThread] = "idle" /\ nHandles = 0
    /\ main_except
    /\ UNCHANGED <<nHandles, hport, hopen, inbuf, wire, ci, ccall, nCalls, lpc, lsender,
                   lhdr, lreads, opsLeft, faultsLeft>>
    /\ OneComFrame

\* ser.write(data), then the sleep that follows it; an I/O fault raises into
\* main's handler
ser_write(here, next, data, flush) ==
    /\ pc[MainThread] = here
    /\ \/ /\ hopen[MainSer]
          /\ inbuf' = IF flush THEN [inbuf EXCEPT ![PORT] = <<>>] ELSE inbuf
          /\ wire' = [wire EXCEPT ![PORT] =
                        Append(@, [call |-> ccall[MainThread], sess |-> 0,
                                   by |-> MainThread, data |-> data])]
          /\ pc' = [pc EXCEPT ![MainThread] = next]
          /\ UNCHANGED <<stdout, faultsLeft>>
       \/ /\ hopen[MainSer] /\ FaultPossible
          /\ faultsLeft' = faultsLeft - 1
          /\ main_except
          /\ UNCHANGED <<inbuf, wire>>
    /\ UNCHANGED <<nHandles, hport, hopen, ci, ccall, nCalls, lpc, lsender, lhdr, lreads,
                   opsLeft>>
    /\ OneComFrame

\* send_at, first half: reset_input_buffer, reset_output_buffer,
\* write(cmd.strip() + "\r\n"), time.sleep(wait)
send_at_write(here, next, cmd) == ser_write(here, next, <<cmd, "\r\n">>, TRUE)

\* the drain loop of send_at and of send_sms: while ser.in_waiting:
\* resp += readline(); the text is resp.strip()
drained == Strip(JoinLines(inbuf[PORT]))

\* init_modem_for_sms: print(send_at(ser, cmd)), the write of command ci
init_write ==
    \E i \in 1..NInit :
        /\ ci[MainThread] = i
        /\ send_at_write("oc_init_write", "oc_init_drain", InitCommands[i])

\* init_modem_for_sms: print(send_at(ser, cmd)), the drain and the print
init_drain ==
    /\ pc[MainThread] = "oc_init_drain"
    /\ inbuf' = [inbuf EXCEPT ![PORT] = <<>>]
    /\ stdout' = Append(stdout, Console("INIT", <<InitCommands[ci[MainThread]]>>, drained))
    /\ IF ci[MainThread] = NInit
       THEN /\ pc' = [pc EXCEPT ![MainThread] = "oc_start"]
            /\ ci' = [ci EXCEPT ![MainThread] = 0]
       ELSE /\ pc' = [pc EXCEPT ![MainThread] = "oc_init_write"]
            /\ ci' = [ci EXCEPT ![MainThread] = ci[MainThread] + 1]
    /\ UNCHANGED <<nHandles, hport, hopen, wire, ccall, nCalls, lpc, lsender, lhdr, lreads,
                   opsLeft, faultsLeft>>
    /\ OneComFrame

\* main: t = threading.Thread(target=sms_listener, args=(ser,)); t.start()
main_start_listener ==
    /\ pc[MainThread] = "oc_start"
    /\ lpc' = [lpc EXCEPT ![SmsListener] = "oc_l_start"]
    /\ pc' = [pc EXCEPT ![MainThread] = "oc_menu"]
    /\ UNCHANGED <<nHandles, hport, hopen, inbuf, wire, ci, ccall, nCalls, lsender, lhdr,
                   lreads, opsLeft, faultsLeft, stdout>>
    /\ OneComFrame

\* main: the menu got a phone number and a text: send_sms(ser, phone, text)
main_menu_send ==
    /\ pc[MainThread] = "oc_menu" /\ opsLeft > 0
    /\ opsLeft' = opsLeft - 1
    /\ nCalls' = nCalls + 1
    /\ ccall' = [ccall EXCEPT ![MainThread] = nCalls + 1]
    /\ pc' = [pc EXCEPT ![MainThread] = "oc_cmgf_write"]
    /\ UNCHANGED <<nHandles, hport, hopen, inbuf, wire, ci, lpc, lsender, lhdr, lreads,
                   faultsLeft, stdout>>
    /\ OneComFrame

\* main: the menu got "exit": print("[MAIN] Closing port..."); ser.close()
main_menu_exit ==
    /\ pc[MainThread] = "oc_menu"
    /\ hopen' = [hopen EXCEPT ![MainSer] = FALSE]
    /\ inbuf' = [inbuf EXCEPT ![PORT] = <<>>]
    /\ stdout' = Append(stdout, Console("MAIN", <<"Closing">>, <<>>))
    /\ pc' = [pc EXCEPT ![MainThread] = "oc_done"]
    /\ UNCHANGED <<nHandles, hport, wire, ci, ccall, nCalls, lpc, lsender, lhdr, lreads,
                   opsLeft, faultsLeft>>
    /\ OneComFrame

\* send_sms: send_at(ser, "AT+CMGF=1"), the write
send_sms_cmgf_write == send_at_write("oc_cmgf_write", "oc_cmgf_drain", "AT+CMGF=1")

\* send_sms: send_at(ser, "AT+CMGF=1"), the drain; the response is dropped
send_sms_cmgf_drain ==
    /\ pc[MainThread] = "oc_cmgf_drain"
    /\ inbuf' = [inbuf EXCEPT ![PORT] = <<>>]
    /\ pc' = [pc EXCEPT ![MainThread] = "oc_cmgs"]
    /\ UNCHANGED <<nHandles, hport, hopen, wire, ci, ccall, nCalls, lpc, lsender, lhdr,
                   lreads, opsLeft, faultsLeft, stdout>>
    /\ OneComFrame

\* send_sms: ser.write(AT+CMGS="<phone>" \r); time.sleep(0.5)
send_sms_cmgs ==
    \E phone \in Phones :
        ser_write("oc_cmgs", "oc_text", <<"AT+CMGS=", Quote, phone, Quote, "\r">>, FALSE)

\* send_sms: ser.write(text + Ctrl-Z); time.sleep(wait)
send_sms_text ==
    \E text \in Texts :
        ser_write("oc_text", "oc_final_drain", <<text, "^Z">>, FALSE)

\* send_sms: the drain after the wait and print("[SEND_SMS] Response:", resp)
send_sms_drain ==
    /\ pc[MainThread] = "oc_final_drain"
    /\ inbuf' = [inbuf EXCEPT ![PORT] = <<>>]
    /\ stdout' = Append(stdout, Console("SEND_SMS", <<>>, drained))
    /\ pc' = [pc EXCEPT ![MainThread] = "oc_menu"]
    /\ ccall' = [ccall EXCEPT ![MainThread] = 0]
    /\ UNCHANGED <<nHandles, hport, hopen, wire, ci, nCalls, lpc, lsender, lhdr, lreads,
                   opsLeft, faultsLeft>>
    /\ OneComFrame

\* sms_listener: print("[LISTENER] Start listening for incoming SMS...")
sms_listener_start ==
    /\ lpc[SmsListener] = "oc_l_start"
    /\ stdout' = Append(stdout, Console("LISTENER", <<"Start">>, <<>>))
    /\ lpc' = [lpc EXCEPT ![SmsListener] = "oc_l_read"]
    /\ UNCHANGED <<nHandles, hport, hopen, inbuf, wire, pc, ci, ccall, nCalls, lsender,
                   lhdr, lreads, opsLeft, faultsLeft>>
    /\ OneComFrame

\* sms_listener: except Exception as e: print("[LISTENER] Error:", e); the
\* handler is outside the loop, the thread ends
sms_listener_except ==
    /\ stdout' = Append(stdout, Console("LISTENER", <<"Error">>, <<>>))
    /\ lpc' = [lpc EXCEPT ![SmsListener] = "dead"]
    /\ UNCHANGED <<inbuf, lsender, lhdr, lreads>>

\* sms_listener: line = ser.readline().decode().strip() returned a line (a
\* timeout returns "" and the loop goes round without a change); a header
\* leads to the second readline, any other line is dropped
sms_listener_read ==
    /\ lpc[SmsListener] = "oc_l_read"
    /\ \/ /\ hopen[MainSer] /\ inbuf[PORT] # <<>>
          /\ inbuf' = [inbuf EXCEPT ![PORT] = Tail(@)]
          /\ lreads' = [lreads EXCEPT ![SmsListener] = Append(@, Head(inbuf[PORT]))]
          /\ IF StartsWith(Strip(Head(inbuf[PORT])), CmtTag)
             THEN /\ lsender' = [lsender EXCEPT ![SmsListener] =
                                   parse_cmt_header(Strip(Head(inbuf[PORT])))]
                  /\ lhdr' = [lhdr EXCEPT ![SmsListener] = Strip(Head(inbuf[PORT]))]
                  /\ lpc' = [lpc EXCEPT ![SmsListener] = "oc_l_body"]
             ELSE UNCHANGED <<lsender, lhdr, lpc>>
          /\ UNCHANGED <<stdout, faultsLeft>>
       \/ /\ ~hopen[MainSer]
          /\ sms_listener_except
          /\ UNCHANGED faultsLeft
       \/ /\ hopen[MainSer] /\ FaultPossible
          /\ faultsLeft' = faultsLeft - 1
          /\ sms_listener_except
    /\ UNCHANGED <<nHandles, hport, hopen, wire, pc, ci, ccall, nCalls, opsLeft>>
    /\ OneComFrame

\* the console text of a parsed sender: the number, or None
SenderText(sender) == IF sender = <<>> THEN <<"None">> ELSE sender[1]

\* sms_listener: text = ser.readline().decode().strip(); the NEW SMS print
sms_listener_body ==
    /\ lpc[SmsListener] = "oc_l_body"
    /\ LET shown(text) ==
              /\ stdout' = Append(stdout,
                     Console("NEW SMS", SenderText(lsender[SmsListener]), text))
              /\ lpc' = [lpc EXCEPT ![SmsListener] = "oc_l_read"]
              /\ lsender' = [lsender EXCEPT ![SmsListener] = <<>>]
              /\ lhdr' = [lhdr EXCEPT ![SmsListener] = <<>>]
       IN \/ /\ hopen[MainSer] /\ inbuf[PORT] # <<>>
             /\ inbuf' = [inbuf EXCEPT ![PORT] = Tail(@)]
             /\ lreads' = [lreads EXCEPT ![SmsListener] = Append(@, Head(inbuf[PORT]))]
             /\ shown(Strip(Head(inbuf[PORT])))
             /\ UNCHANGED faultsLeft
          \/ /\ hopen[MainSer] /\ inbuf[PORT] = <<>>
             /\ lreads' = [lreads EXCEPT ![SmsListener] = Append(@, <<>>)]
             /\ shown(<<>>)
             /\ UNCHANGED <<inbuf, faultsLeft>>
          \/ /\ ~hopen[MainSer]
             /\ sms_listener_except
             /\ UNCHANGED faultsLeft
          \/ /\ hopen[MainSer] /\ FaultPossible
             /\ faultsLeft' = faultsLeft - 1
             /\ sms_listener_except
    /\ UNCHANGED <<nHandles, hport, hopen, wire, pc, ci, ccall, nCalls, opsLeft>>
    /\ OneComFrame

\* python sms_one_com.py: nothing opened, nothing printed
InitOneCom == InitWith(FALSE, OneComOps, OneComEmit, MaxFaults) /\ NoCall

\* ------------------------------------------------ parse_cmt_header, called
\* lines a modem or a noisy channel can deliver: some leading text, a tag (the
\* +CMT: tag, a tag without its colon, another tag, none), a gap, a first
\* field (quoted, quoted with a blank, empty, unclosed, unopened, unquoted,
\* absent) and the rest of the line
HeaderLead == {<<>>, <<"x">>, <<" ">>}
HeaderTags == {CmtTag, <<"+", "C", "M", "T">>, <<"+", "C", "M", "G", "R", ":">>, <<>>}
HeaderGaps == {<<>>, <<" ">>, <<" ", "\t">>, <<" ", "1", ",">>}
HeaderFields ==
    {<<Quote, "8", "4", Quote>>, <<Quote, "+", "8", Quote>>, <<Quote, " ", "8", Quote>>,
     <<Quote, Quote>>, <<Quote, "8", "4">>, <<"8", "4", Quote>>, <<"8", "4">>, <<>>}
HeaderRest == {<<>>, <<",">>, <<",", Quote, "x", Quote>>, <<",", Quote, Quote, ",", "2">>}

HeaderLines ==
    {a \o b \o c \o d \o e :
        a \in HeaderLead, b \in HeaderTags, c \in HeaderGaps, d \in HeaderFields,
        e \in HeaderRest}

\* a caller holds a line and has not called the parser yet
InitParse ==
    /\ InitWith(FALSE, 0, 0, 0)
    /\ fn_in \in HeaderLines
    /\ fn_out = NoOut

\* sender = parse_cmt_header(line)
ParseHeader ==
    /\ ~fn_out.done
    /\ fn_out' = Out(parse_cmt_header(fn_in))
    /\ UNCHANGED <<registryVars, sessionVars, handleVars, inbuf, wire, callerVars,
                   listenerVars, event_queue, observed, budgetVars, stdout, fn_in,
                   info, ussd_resps>>

\* ------------------------------------------------ scan_phone_number.py
CnumTag == <<"+", "C", "N", "U", "M", ":">>
LineBreaks == {"\r\n", "\n", "\r"}

\* str.splitlines(): the lines of s without their terminators
RECURSIVE splitlines(_)
splitlines(s) ==
    IF s = <<>> THEN <<>>
    ELSE
      LET brk == {i \in 1..Len(s) : s[i] \in LineBreaks}
      IN IF brk = {} THEN <<s>>
         ELSE
           LET i == CHOOSE x \in brk : \A y \in brk : x <= y
           IN <<SubSeq(s, 1, i - 1)>> \o splitlines(SubSeq(s, i + 1, Len(s)))

\* sub in s
Contains(s, sub) ==
    \E i \in 1..(Len(s) - Len(sub) + 1) : SubSeq(s, i, i + Len(sub) - 1) = sub

\* one attempt of the pattern \+CNUM:.*?"([^"]+)" anchored at index i:
\* <<group 1>> on a match, <<>> otherwise. The lazy .*? stops at the first
\* quote that is followed by a non-empty run without quotes and a quote.
CnumMatchAt(line, i) ==
    IF ~(i + 5 <= Len(line) /\ SubSeq(line, i, i + 5) = CnumTag) THEN <<>>
    ELSE
      LET opening == {q \in (i + 6)..Len(line) :
                        /\ line[q] = Quote
                        /\ q + 1 <= Len(line) /\ line[q + 1] # Quote
                        /\ \E e \in (q + 2)..Len(line) : line[e] = Quote}
      IN IF opening = {} THEN <<>>
         ELSE
           LET q == CHOOSE x \in opening : \A y \in opening : x <= y
               closing == {e \in (q + 2)..Len(line) : line[e] = Quote}
               e == CHOOSE x \in closing : \A y \in closing : x <= y
           IN <<SubSeq(line, q + 1, e - 1)>>

\* re.search(r'\+CNUM:.*?"([^"]+)"', line)
cnum_search(line) ==
    LET hits == {i \in 1..Len(line) : CnumMatchAt(line, i) # <<>>}
    IN IF hits = {} THEN <<>>
       ELSE CnumMatchAt(line, CHOOSE i \in hits : \A y \in hits : i <= y)

\* the loop of parse_cnum over the lines that are left
RECURSIVE cnum_lines(_)
cnum_lines(ls) ==
    IF ls = <<>> THEN <<>>
    ELSE
      LET line == Head(ls)
          m == cnum_search(line)
      IN IF Contains(line, CnumTag) /\ m # <<>> /\ Strip(m[1]) # <<>>
         THEN <<Strip(m[1])>>
         ELSE cnum_lines(Tail(ls))

\* parse_cnum(resp): <<number>>, or <<>> for None
parse_cnum(resp) == cnum_lines(splitlines(resp))

\* responses to AT+CNUM: an echo line or none, then a +CNUM: line made of a
\* gap, an alpha field (empty quotes, a quoted tag, nothing), a comma, a
\* number field (quoted number, empty quotes, quoted blank, quoted number
\* between blanks), the remaining fields or none, and then nothing, the final
\* OK, or a second +CNUM: line
CnumResponses ==
    LET CnumEcho == {<<>>, <<"A", "T", "\r\n">>}
        CnumGaps == {<<>>, <<" ">>}
        CnumAlpha == {<<Quote, Quote>>, <<Quote, "M", "e", Quote>>, <<>>}
        CnumNumber ==
            {<<Quote, "+", "8", "4", Quote>>, <<Quote, Quote>>, <<Quote, " ", Quote>>,
             <<Quote, " ", "8", "4", " ", Quote>>}
        CnumRest == {<<>>, <<",", "1", "2", "9">>}
        CnumTail ==
            {<<>>, <<"\r\n", "O", "K">>,
             <<"\r\n">> \o CnumTag \o <<" ", ",", Quote, "0", "9", Quote>>}
    IN {a \o CnumTag \o b \o c \o <<",">> \o d \o e \o f :
          a \in CnumEcho, b \in CnumGaps, c \in CnumAlpha, d \in CnumNumber,
          e \in CnumRest, f \in CnumTail}

\* a prober holds the drained response and has not called the parser yet
InitCnum ==
    /\ InitWith(FALSE, 0, 0, 0)
    /\ fn_in \in CnumResponses
    /\ fn_out = NoOut

\* number = parse_cnum(resp_cnum)
ParseCnum ==
    /\ ~fn_out.done
    /\ fn_out' = Out(parse_cnum(fn_in))
    /\ UNCHANGED <<registryVars, sessionVars, handleVars, inbuf, wire, callerVars,
                   listenerVars, event_queue, observed, budgetVars, stdout, fn_in,
                   info, ussd_resps>>

\* ------------------------------------------------ scan_phone_number_ussd.py
\* the pattern (84\d{8,10}|0\d{8,10}): the least and the most digits that
\* follow the prefix
MinDigits == 8
MaxDigits == 10
Digits == {"0", "1", "2", "3", "4", "5", "6", "7", "8", "9"}
\* the characters U+200B (zero width space) and U+00A0 (no-break space)
ZWSP == "\\u200b"
NBSP == "\\xa0"

\* str.replace(old, new) for a one-character old
RECURSIVE Replace(_, _, _)
Replace(s, old, new) ==
    IF s = <<>> THEN <<>>
    ELSE (IF Head(s) = old THEN new ELSE <<Head(s)>>) \o Replace(Tail(s), old, new)

\* clean = text.replace("\u200b", "").replace("\xa0", " ")
clean_text(text) == Replace(Replace(text, ZWSP, <<>>), NBSP, <<" ">>)

\* the number of consecutive digits of s from index i on
RECURSIVE DigitRun(_, _)
DigitRun(s, i) ==
    IF i <= Len(s) /\ s[i] \in Digits THEN 1 + DigitRun(s, i + 1) ELSE 0

\* \d{8,10} from index i: greedy, as many digits as there are up to MaxDigits
TakeDigits(s, i) ==
    IF DigitRun(s, i) > MaxDigits THEN MaxDigits ELSE DigitRun(s, i)

\* one attempt of the pattern (84\d{8,10}|0\d{8,10}) anchored at index i:
\* <<the match>>, or <<>>; the alternative 84 is tried first
MsisdnMatchAt(s, i) ==
    IF /\ i + 1 <= Len(s) /\ s[i] = "8" /\ s[i + 1] = "4"
       /\ DigitRun(s, i + 2) >= MinDigits
    THEN <<SubSeq(s, i, i + 1 + TakeDigits(s, i + 2))>>
    ELSE IF i <= Len(s) /\ s[i] = "0" /\ DigitRun(s, i + 1) >= MinDigits
    THEN <<SubSeq(s, i, i + TakeDigits(s, i + 1))>>
    ELSE <<>>

last_candidate(clean) ==
    LET hits == {i \in 1..Len(clean) : MsisdnMatchAt(clean, i) # <<>>}
    IN IF hits = {} THEN <<>>
       ELSE MsisdnMatchAt(clean, CHOOSE i \in hits : \A y \in hits : i >= y)

\* candidates = re.findall(...); candidates[0] if candidates else None:
\* the scan goes left to right, so candidates[0] is the match at the leftmost
\* index at which the pattern matches
first_candidate(clean) ==
    LET hits == {i \in 1..Len(clean) : MsisdnMatchAt(clean, i) # <<>>}
    IN IF hits = {} THEN <<>>
       ELSE MsisdnMatchAt(clean, CHOOSE i \in hits : \A y \in hits : i <= y)

\* extract_msisdn_from_text(text) (test_one_com.py: extract_msisdn):
\* <<number>>, or <<>> for None
extract_msisdn_from_text(text) == first_candidate(clean_text(text))

\* n times the token tok
Rep(tok, n) == [i \in 1..n |-> tok]

\* USSD replies: some text, a digit run, a separator, a second digit run.
\* Runs: none, 84 or 0 followed by one digit too few, the least, the most and
\* one more than the most, and runs broken by a zero width or no-break space
UssdTexts ==
    LET UssdLead == {<<>>, <<"x">>, <<"8">>, <<"0">>}
        UssdRuns ==
            {<<>>}
            \cup {<<"8", "4">> \o Rep("9", n) :
                     n \in {MinDigits - 1, MinDigits, MaxDigits, MaxDigits + 1}}
            \cup {<<"0">> \o Rep("1", n) :
                     n \in {MinDigits - 1, MinDigits, MaxDigits, MaxDigits + 1}}
            \cup {<<"8", "4">> \o Rep("9", 4) \o <<ZWSP>> \o Rep("9", 4),
                  <<"0">> \o Rep("1", 4) \o <<NBSP>> \o Rep("1", 4)}
        UssdSeps == {<<>>, <<" ">>, <<NBSP>>}
    IN {a \o b \o c \o d : a \in UssdLead, b \in UssdRuns, c \in UssdSeps, d \in UssdRuns}

\* a prober holds the text of a USSD reply and has not searched it yet
InitMsisdn ==
    /\ InitWith(FALSE, 0, 0, 0)
    /\ fn_in \in UssdTexts
    /\ fn_out = NoOut

\* msisdn = extract_msisdn_from_text(ussd_resp)
ExtractMsisdn ==
    /\ ~fn_out.done
    /\ fn_out' = Out(extract_msisdn_from_text(fn_in))
    /\ UNCHANGED <<registryVars, sessionVars, handleVars, inbuf, wire, callerVars,
                   listenerVars, event_queue, observed, budgetVars, stdout, fn_in,
                   info, ussd_resps>>

\* ------------------------------------------------ the one-shot probes
\* doc_kit.py probe_at_port, scan_sim_ready.py probe_sim_on_port,
\* scan_phone_number.py probe_port_for_number and scan_phone_number_ussd.py
\* probe_port_for_number_with_ussd: each opens the port, talks to the modem
\* on the calling thread and returns a dict.  One probe runs at a time.
ProbeFns ==
    {"probe_at_port", "probe_sim_on_port", "probe_port_for_number",
     "probe_port_for_number_with_ussd"}

\* scan_phone_number_ussd.py: USSD_CODES
USSD_CODES == <<"*0#", "*888#", "*101#">>

\* what the modem may send while a probe holds the port
LineReady == <<"R", "E", "A", "D", "Y">>
LineCnum == CnumTag \o <<" ", Quote, Quote, ",", Quote, "0", "9", Quote>>
LineUssdNumber == <<"8", "4">> \o Rep("9", MinDigits)
LineUssdText == <<"N", "o">>
ProbeLines == {LineOK, LineReady, LineCnum, LineUssdNumber, LineUssdText}

\* what no step of a probe touches
ProbeFrame ==
    UNCHANGED <<registryVars, sessionVars, cs, ccall, ret, nCalls, listenerVars,
                event_queue, observed, has_queue, opsLeft, emitLeft, stdout, fn_in,
                fn_out>>

\* the port the running probe was called with
ProbePort == cport[MainThread]

\* the first statement of each probe after the port is open
FirstStep(fn) ==
    CASE fn = "probe_at_port" -> "pa_w"
      [] fn = "probe_sim_on_port" -> "ps_at_w"
      [] fn = "probe_port_for_number" -> "pn_at_w"
      [] fn = "probe_port_for_number_with_ussd" -> "pu_at_w"

\* ser = serial.Serial(port=port, baudrate=baudrate, timeout=timeout) succeeds
probe_open(fn, p) ==
    /\ pc[MainThread] = "idle" /\ info.state = "none" /\ nHandles = 0
    /\ nHandles' = MainSer
    /\ hport' = [hport EXCEPT ![MainSer] = p]
    /\ hopen' = [hopen EXCEPT ![MainSer] = TRUE]
    /\ cport' = [cport EXCEPT ![MainThread] = p]
    /\ info' = [NoInfo EXCEPT !.fn = fn, !.state = "running"]
    /\ pc' = [pc EXCEPT ![MainThread] = FirstStep(fn)]
    /\ UNCHANGED <<inbuf, wire, ci, faultsLeft, ussd_resps>>
    /\ ProbeFrame

\* serial.Serial raises: except Exception as e: return {... "error": ...};
\* no channel was opened
probe_open_fail(fn, p) ==
    /\ pc[MainThread] = "idle" /\ info.state = "none" /\ nHandles = 0
    /\ cport' = [cport EXCEPT ![MainThread] = p]
    /\ info' = [NoInfo EXCEPT !.fn = fn, !.state = "returned", !.error = "open_error"]
    /\ pc' = [pc EXCEPT ![MainThread] = "p_done"]
    /\ UNCHANGED <<nHandles, hport, hopen, inbuf, wire, ci, faultsLeft, ussd_resps>>
    /\ ProbeFrame

not_closed(ho, h) == ho

\* ser.close()
ser_close(ho, h) == [ho EXCEPT ![h] = FALSE]

\* ser.close(); return <the dict i>.  The device's input queue is dropped
\* with the handle.
close_return(i) ==
    /\ hopen' = ser_close(hopen, MainSer)
    /\ inbuf' = [inbuf EXCEPT ![ProbePort] = <<>>]
    /\ info' = [i EXCEPT !.state = "returned"]
    /\ pc' = [pc EXCEPT ![MainThread] = "p_done"]

\* the handler of the probe's second try block.  doc_kit.py and
\* scan_sim_ready.py: ser.close(); return {"ok": False, "error": str(e)}.
\* scan_phone_number*.py: info["error"] = "runtime_error: ..."; try:
\* ser.close() except: pass; return info
probe_except ==
    close_return(IF info.fn \in {"probe_at_port", "probe_sim_on_port"}
                 THEN [NoInfo EXCEPT !.fn = info.fn, !.error = "runtime_error"]
                 ELSE [info EXCEPT !.error = "runtime_error"])

\* a call on the serial object raises (the device was unplugged, an I/O error)
probe_fault ==
    /\ FaultPossible
    /\ faultsLeft' = faultsLeft - 1
    /\ probe_except

\* what has arrived since the last flush, read in full: the drain loop of
\* send_at (resp += readline() while in_waiting), ser.read(ser.in_waiting)
\* of doc_kit.py and of send_ussd_and_wait; then .strip()
probe_resp == Strip(JoinLines(inbuf[ProbePort]))

\* the reading step goes on with statement next and the dict i
go_on(next, i) ==
    /\ inbuf' = [inbuf EXCEPT ![ProbePort] = <<>>]
    /\ info' = i
    /\ pc' = [pc EXCEPT ![MainThread] = next]
    /\ UNCHANGED hopen

\* the writing half of a command: [reset_input_buffer, reset_output_buffer,]
\* ser.write(data), and the sleep that follows
probe_write(here, next, data, flush) ==
    /\ pc[MainThread] = here
    /\ \/ /\ inbuf' = IF flush THEN [inbuf EXCEPT ![ProbePort] = <<>>] ELSE inbuf
          /\ wire' = [wire EXCEPT ![ProbePort] =
                        Append(@, [call |-> 0, sess |-> 0, by |-> MainThread,
                                   data |-> data])]
          /\ pc' = [pc EXCEPT ![MainThread] = next]
          /\ UNCHANGED <<hopen, info, faultsLeft>>
       \/ /\ probe_fault
          /\ UNCHANGED wire
    /\ UNCHANGED <<nHandles, hport, cport, ci, ussd_resps>>
    /\ ProbeFrame

\* the reading half of a command, with what follows it up to the next write
\* or the return
probe_read(here, then) ==
    /\ pc[MainThread] = here
    /\ \/ /\ then
          /\ UNCHANGED faultsLeft
       \/ /\ probe_fault
          /\ UNCHANGED <<ci, ussd_resps>>
    /\ UNCHANGED <<nHandles, hport, cport, wire>>
    /\ ProbeFrame

\* doc_kit.py probe_at_port: ser.write(b"AT\r\n"); sleep(0.5)
pa_write == probe_write("pa_w", "pa_r", <<"AT", "\r\n">>, FALSE)

\* resp = ser.read(ser.in_waiting or 64); ser.close();
\* return {"ok": "OK" in resp, "raw": resp.strip()}
pa_read ==
    probe_read("pa_r",
        /\ close_return([info EXCEPT !.ok = Contains(probe_resp, LineOK)])
        /\ UNCHANGED <<ci, ussd_resps>>)

\* scan_sim_ready.py send_at: ser.write((cmd.strip() + "\r\n").encode());
\* sleep(wait) -- no buffer is reset
sim_send_at_write(here, next, cmd) == probe_write(here, next, <<cmd, "\r\n">>, FALSE)

\* scan_phone_number.py, scan_phone_number_ussd.py send_at:
\* ser.reset_input_buffer(); ser.reset_output_buffer(); ser.write(...); sleep
num_send_at_write(here, next, cmd) == probe_write(here, next, <<cmd, "\r\n">>, TRUE)

\* probe_sim_on_port: resp_at = send_at(ser, "AT")
ps_at_write == sim_send_at_write("ps_at_w", "ps_at_r", "AT")

\* result["at_ok"] = "OK" in resp_at; if not: ser.close(); return result
ps_at_read ==
    probe_read("ps_at_r",
        /\ IF Contains(probe_resp, LineOK)
           THEN go_on("ps_cpin_w", [info EXCEPT !.at_ok = TRUE])
           ELSE close_return(info)
        /\ UNCHANGED <<ci, ussd_resps>>)

\* resp_cpin = send_at(ser, "AT+CPIN?")
ps_cpin_write == sim_send_at_write("ps_cpin_w", "ps_cpin_r", "AT+CPIN?")

\* result["sim_status"] = ... ; ser.close(); return result  (of the replies
\* the modem gives here only READY names a status)
ps_cpin_read ==
    probe_read("ps_cpin_r",
        /\ close_return([info EXCEPT !.sim_status =
                           IF Contains(probe_resp, LineReady) THEN "READY" ELSE "UNKNOWN"])
        /\ UNCHANGED <<ci, ussd_resps>>)

\* probe_port_for_number: resp_at = send_at(ser, "AT")
pn_at_write == num_send_at_write("pn_at_w", "pn_at_r", "AT")

\* if "OK" not in resp_at: info["error"] = ...; ser.close(); return info;
\* info["at_ok"] = True
num_at_read(here, next) ==
    probe_read(here,
        /\ IF Contains(probe_resp, LineOK)
           THEN go_on(next, [info EXCEPT !.at_ok = TRUE])
           ELSE close_return([info EXCEPT !.error = "AT no OK"])
        /\ UNCHANGED <<ci, ussd_resps>>)

pn_at_read == num_at_read("pn_at_r", "pn_cnum_w")

\* resp_cnum = send_at(ser, "AT+CNUM", wait=1.5)
pn_cnum_write == num_send_at_write("pn_cnum_w", "pn_cnum_r", "AT+CNUM")

\* info["raw_cnum"] = resp_cnum; number = parse_cnum(resp_cnum); phone_number
\* or the error; ser.close(); return info
pn_cnum_read ==
    probe_read("pn_cnum_r",
        /\ close_return(
              IF parse_cnum(probe_resp) # <<>>
              THEN [info EXCEPT !.raw_cnum = <<probe_resp>>,
                                !.phone_number = parse_cnum(probe_resp)]
              ELSE [info EXCEPT !.raw_cnum = <<probe_resp>>,
                                !.error = "CNUM empty or not supported"])
        /\ UNCHANGED <<ci, ussd_resps>>)

\* probe_port_for_number_with_ussd: resp_at = send_at(ser, "AT")
pu_at_write == num_send_at_write("pu_at_w", "pu_at_r", "AT")

pu_at_read == num_at_read("pu_at_r", "pu_cpin_w")

\* resp_cpin = send_at(ser, "AT+CPIN?")
pu_cpin_write == num_send_at_write("pu_cpin_w", "pu_cpin_r", "AT+CPIN?")

\* if "READY" not in resp_cpin: error; ser.close(); return info;
\* info["sim_ready"] = True; for code in ussd_codes: (the first code)
pu_cpin_read ==
    probe_read("pu_cpin_r",
        /\ IF Contains(probe_resp, LineReady)
           THEN /\ go_on("pu_cscs_w", [info EXCEPT !.sim_ready = TRUE])
                /\ ci' = [ci EXCEPT ![MainThread] = 1]
           ELSE /\ close_return([info EXCEPT !.error = "SIM not READY"])
                /\ UNCHANGED ci
        /\ UNCHANGED ussd_resps)

\* send_ussd_and_wait: send_at(ser, 'AT+CSCS="GSM"'), the write
pu_cscs_write == num_send_at_write("pu_cscs_w", "pu_cscs_r", "AT+CSCS=\"GSM\"")

\* send_ussd_and_wait: send_at(ser, 'AT+CSCS="GSM"'), the drain; the reply is
\* dropped
pu_cscs_read ==
    probe_read("pu_cscs_r",
        /\ go_on("pu_cusd_w", info)
        /\ UNCHANGED <<ci, ussd_resps>>)

\* send_ussd_and_wait: reset_input_buffer; reset_output_buffer;
\* ser.write('AT+CUSD=1,"<code>",15\r\n')
pu_cusd_write ==
    probe_write("pu_cusd_w", "pu_cusd_r",
                <<"AT+CUSD=1,", Quote, USSD_CODES[ci[MainThread]], Quote, ",15", "\r\n">>,
                TRUE)

LoopEndsAtLast(found, k) == k = Len(USSD_CODES)

\* the for loop over ussd_codes ends at the break or after the last code
LoopEnds(found, k) == found \/ k = Len(USSD_CODES)

\* the dict after the loop body has seen the reply resp to code
after_reply(i, code, resp) ==
    IF resp = <<>> THEN i
    ELSE IF extract_msisdn_from_text(resp) # <<>>
    THEN [i EXCEPT !.phone_number = extract_msisdn_from_text(resp),
                   !.raw_ussd = <<resp>>, !.used_ussd = <<code>>]
    ELSE [i EXCEPT !.raw_ussd = <<resp>>]

\* send_ussd_and_wait: the timed read, return buf.strip(); then the loop body
\* (continue / break / raw_ussd), and after the loop: if not
\* info["phone_number"]: error; ser.close(); return info
pu_cusd_read ==
    probe_read("pu_cusd_r",
        LET k == ci[MainThread]
            resp == probe_resp
            i == after_reply(info, USSD_CODES[k], resp)
        IN /\ ussd_resps' = Append(ussd_resps, resp)
           /\ IF LoopEnds(i.phone_number # <<>>, k)
              THEN /\ close_return(IF i.phone_number = <<>>
                                   THEN [i EXCEPT !.error = "Cannot extract phone"]
                                   ELSE i)
                   /\ UNCHANGED ci
              ELSE /\ go_on("pu_cscs_w", i)
                   /\ ci' = [ci EXCEPT ![MainThread] = k + 1])

\* a probe is called on a fresh process; the modem may answer
InitProbe == InitWith(FALSE, 0, ProbeEmit, MaxFaults) /\ NoCall

\* ------------------------------------------------------------ specification
CallerStep(t) ==
    \/ \E p \in Ports : Connect(t, p)
    \/ OpenCheck(t)
    \/ OpenSerialOk(t)
    \/ OpenSerialFail(t)
    \/ InitWrite(t)
    \/ InitDrain(t)
    \/ OpenRun(t)
    \/ OpenLog(t)
    \/ \E p \in Ports : DisconnectMissing(t, p)
    \/ \E p \in Ports : DisconnectBegin(t, p)
    \/ CloseFlag(t)
    \/ CloseSer(t)
    \/ DisconnectDel(t)
    \/ ListSessions(t)
    \/ \E p \in Ports : SendLookupMissing(t, p)
    \/ \E p \in Ports : SendSmsBegin(t, p)
    \/ \E p \in Ports : SendUssdBegin(t, p)
    \/ SmsCheck(t)
    \/ UssdCheck(t)
    \/ \E k \in 1..3 : SmsWrite(t, k)
    \/ \E k \in 1..2 : UssdWrite(t, k)

ListenerStep(l) ==
    \/ ListenerStart(l)
    \/ ListenerCheck(l)
    \/ ListenerRead(l)

\* callers on several threads against one manager; the modem stays silent, so
\* no listener ever holds a header and ListenerBody has no step to take
Next ==
    \/ \E t \in Threads : CallerStep(t)
    \/ \E l \in ListenerIds : ListenerStep(l)

Spec == Init /\ [][Next]_vars

\* the GUI application: its one caller thread, the listeners, a modem that
\* sends lines, and the GUI's poll of the event queue
GuiThreads == {1}

NextGui ==
    \/ \E t \in GuiThreads : CallerStep(t)
    \/ \E l \in ListenerIds : ListenerStep(l) \/ ListenerBody(l) \/ ListenerStore(l)
    \/ \E line \in DeviceLines : DeviceEmit(line)
    \/ PollEvents

SpecGui == InitGui /\ [][NextGui]_vars

\* the console script: main, its listener thread and the modem
NextOneCom ==
    \/ main_open
    \/ main_open_fail
    \/ init_write
    \/ init_drain
    \/ main_start_listener
    \/ main_menu_send
    \/ main_menu_exit
    \/ send_sms_cmgf_write
    \/ send_sms_cmgf_drain
    \/ send_sms_cmgs
    \/ send_sms_text
    \/ send_sms_drain
    \/ sms_listener_start
    \/ sms_listener_read
    \/ sms_listener_body
    \/ \E line \in DeviceLines : DeviceEmit(line)

SpecOneCom == InitOneCom /\ [][NextOneCom]_vars

\* parse_cmt_header applied to one line
NextParse == ParseHeader

SpecParse == InitParse /\ [][NextParse]_vars

\* parse_cnum applied to one response
NextCnum == ParseCnum

SpecCnum == InitCnum /\ [][NextCnum]_vars

\* extract_msisdn_from_text applied to one text
NextMsisdn == ExtractMsisdn

SpecMsisdn == InitMsisdn /\ [][NextMsisdn]_vars

\* one probe, called once, and the modem
NextProbe ==
    \/ \E fn \in ProbeFns, p \in AllPorts : probe_open(fn, p)
    \/ \E fn \in ProbeFns, p \in AllPorts : probe_open_fail(fn, p)
    \/ pa_write
    \/ pa_read
    \/ ps_at_write
    \/ ps_at_read
    \/ ps_cpin_write
    \/ ps_cpin_read
    \/ pn_at_write
    \/ pn_at_read
    \/ pn_cnum_write
    \/ pn_cnum_read
    \/ pu_at_write
    \/ pu_at_read
    \/ pu_cpin_write
    \/ pu_cpin_read
    \/ pu_cscs_write
    \/ pu_cscs_read
    \/ pu_cusd_write
    \/ pu_cusd_read
    \/ \E line \in ProbeLines : DeviceEmit(line)

SpecProbe == InitProbe /\ [][NextProbe]_vars

\* the GUI application with its HTTP API in use: two clients on their own
\* threads that each call connect once against the manager that publishes on
\* the GUI's queue; once the calls have returned the listener threads begin
\* to run and the modem sends two SMS notification headers, the second
\* without a sender
InboxEmit == 2
InboxLines == <<LineCmt, LineCmtNoSender>>

InitInbox == InitWith(TRUE, NThreads, InboxEmit, 0) /\ NoCall

ConnectStep(t) ==
    \/ \E p \in Ports : ret[t] = NoRet /\ Connect(t, p)
    \/ OpenCheck(t)
    \/ OpenSerialOk(t)
    \/ OpenSerialFail(t)
    \/ InitWrite(t)
    \/ InitDrain(t)
    \/ OpenRun(t)
    \/ OpenLog(t)

\* both clients have their answer
CallsReturned == \A t \in Threads : pc[t] = "idle" /\ ret[t] # NoRet

\* a listener thread that open() has started gets the processor for the first
\* time after the calls have returned
InboxListenerStart(l) == CallsReturned /\ ListenerStart(l)

\* the next message arrives after the calls have returned
InboxEmitStep ==
    /\ CallsReturned
    /\ emitLeft > 0
    /\ DeviceEmit(InboxLines[((InboxEmit - emitLeft) % Len(InboxLines)) + 1])

NextInbox ==
    \/ \E t \in Threads : ConnectStep(t)
    \/ \E l \in ListenerIds :
         \/ InboxListenerStart(l)
         \/ ListenerCheck(l)
         \/ ListenerRead(l)
         \/ ListenerBody(l)
         \/ ListenerStore(l)
    \/ InboxEmitStep

SpecInbox == InitInbox /\ [][NextInbox]_vars

\* two clients that each call connect once, one of which may then call
\* disconnect; the manager has no event queue and the modem stays silent
StopOps == 3

InitStop == InitWith(FALSE, StopOps, 0, 0) /\ NoCall

DisconnectStep(t) ==
    \/ \E p \in Ports : ret[t].op = "connect" /\ DisconnectBegin(t, p)
    \/ CloseFlag(t)
    \/ CloseSer(t)
    \/ DisconnectDel(t)

NextStop ==
    \/ \E t \in Threads : ConnectStep(t) \/ DisconnectStep(t)
    \/ \E l \in ListenerIds : ListenerStep(l)

\* the listener threads are scheduled: a listener that can take a step (a
\* blocking read returns a line, times out or raises) eventually takes one
ListenerFair == \A l \in ListenerIds : WF_vars(ListenerStep(l))

\* a thread that has entered close() goes on to the end of disconnect
CloseFair == \A t \in Threads : WF_vars(CloseFlag(t) \/ CloseSer(t) \/ DisconnectDel(t))

SpecStop == InitStop /\ [][NextStop]_vars /\ ListenerFair /\ CloseFair

\* ------------------------------------------------------------------ claims
\* C1: at no time are two channel handles open on the same port identifier,
\* whatever the interleaving of connect and disconnect calls.
C1_OneOpenHandlePerPort ==
    \A p \in Ports : Cardinality(OpenHandles(p)) <= 1

\* C2: connect on a port whose session is registered with an open channel
\* returns that same session and changes nothing: the lookup returns the
\* registered session and leaves the registry alone, and open() returns at
\* once without opening a handle, running an init command or starting a
\* listener.
C2_ConnectIdempotent ==
    [][\A t \in Threads :
         /\ (pc[t] = "idle" /\ pc'[t] = "open_check" /\ sessions[cport'[t]] # 0)
              => /\ cs'[t] = sessions[cport'[t]]
                 /\ UNCHANGED <<sessions, nSessions>>
         /\ (/\ pc[t] = "open_check" /\ pc'[t] # "open_check"
             /\ sessions[cport[t]] = cs[t] /\ SerOpen(cs[t]))
              => /\ pc'[t] = "idle"
                 /\ ret'[t] = Ret("connect", cport[t], "ok", cs[t], 0)
                 /\ UNCHANGED <<sessions, nSessions, ser, running, thread, nHandles,
                                hopen, wire, inbuf, lpc, event_queue>>]_vars

\* C2 witness: both threads were returned session 1 by connect, and only one
\* handle was ever opened: one of the two calls was the idempotent one.
C2_Witness ==
    /\ \A t \in Threads : ret[t] = Ret("connect", "COM3", "ok", 1, 0)
    /\ sessions["COM3"] = 1 /\ SerOpen(1)
    /\ nHandles = 1

\* C3: when acquiring the channel fails during connect(port), the port is not
\* a key of the registry after the failed call.
C3_FailedOpenNotRegistered ==
    [][\A t \in Threads :
         (pc[t] = "open_serial" /\ pc'[t] = "idle" /\ ret'[t].res = "open_error")
           => sessions'[cport[t]] = 0]_vars

\* C4: when an initialization command raises during open(), the channel is
\* released before open() exits: the session is not left with an open channel.
C4_InitFailureReleasesChannel ==
    [][\A t \in Threads :
         (pc[t] \in {"init_write", "init_drain"} /\ pc'[t] = "idle"
            /\ ret'[t].res = "init_error")
           => ~(ser'[cs[t]] # 0 /\ hopen'[ser'[cs[t]]])]_vars

\* C5: no listener reads the channel before the last initialization drain has
\* finished: no listener thread is inside a readline on an open channel of a
\* port while an open() is still running its initialization exchanges on a
\* session of that port.
C5_NoListenerReadDuringInit ==
    \A l \in ListenerIds, t \in Threads :
        ~(/\ lpc[l] \in {"read", "body"}
          /\ SerOpen(lsess[l])
          /\ pc[t] \in {"init_write", "init_drain"}
          /\ sport[cs[t]] = sport[lsess[l]])

\* the writes of send calls on session s, in the order the device got them
RECURSIVE SendsOf(_, _)
SendsOf(w, s) ==
    IF w = <<>> THEN <<>>
    ELSE IF Head(w).call # 0 /\ Head(w).sess = s
         THEN <<Head(w)>> \o SendsOf(Tail(w), s)
         ELSE SendsOf(Tail(w), s)

\* C6: the writes of one send call on a session are never interleaved with a
\* write of another send call on that session: between two writes of a call
\* the device sees only writes of that call.
C6_SendWritesContiguous ==
    \A p \in Ports, s \in SessIds :
        LET w == SendsOf(wire[p], s)
        IN \A i, j, k \in DOMAIN w :
             (i < j /\ j < k /\ w[i].call = w[k].call) => w[j].call = w[i].call

\* C6 witness: a send call holds the session lock between two of its writes
\* while another thread's send call on the same session waits to write.
C6_Witness ==
    \E t1, t2 \in Threads :
        /\ t1 # t2 /\ cs[t1] = cs[t2]
        /\ pc[t1] \in {"sms_w2", "sms_w3", "ussd_w2"} /\ lock[cs[t1]] = t1
        /\ pc[t2] \in {"sms_w1", "ussd_w1"}

\* C7: send_sms or send_ussd on a session whose channel is absent or closed
\* raises "Modem not connected" and does nothing else: no write, no lock
\* acquired, no event published.
C7_SendOnClosedRaises ==
    [][\A t \in Threads :
         (pc[t] \in {"sms_check", "ussd_check"} /\ pc'[t] # pc[t] /\ ~SerOpen(cs[t]))
           => /\ pc'[t] = "idle"
              /\ ret'[t].res = "not_connected" /\ ret'[t].writes = 0
              /\ UNCHANGED <<wire, lock, event_queue, observed, hopen, inbuf>>]_vars

\* C7 witness: a send call was refused on a registered session without channel.
C7_Witness ==
    \E t \in Threads :
        /\ ret[t].res = "not_connected" /\ ret[t].op = "send_sms"
        /\ sessions["COM3"] = ret[t].sess
        /\ wire["COM3"] = <<>>

\* C8: send_sms either performs all three of its writes or fails having
\* written nothing, also when close() runs at the same time.
C8_NoPartialWrite ==
    \A t \in Threads :
        ret[t].op = "send_sms" => ret[t].writes \in {0, 3}

\* C9: the header read publishes nothing; the body read that follows the
\* header +CMT: "84", publishes exactly one SmsEvent with sender 84 and the
\* body as text, and the same iteration then appends exactly one such record
\* to the inbox.
C9_SmsPublishedOnce ==
    [][\A l \in ListenerIds :
         /\ (lpc[l] = "read" /\ lpc'[l] = "body")
              => UNCHANGED <<event_queue, sms_store>>
         /\ (/\ lpc[l] = "body" /\ lhdr[l] = LineCmt
             /\ inbuf[sport[lsess[l]]] # <<>>
             /\ lreads'[l] # lreads[l])
              => LET B == Head(inbuf[sport[lsess[l]]])
                 IN B \in {LineBody, LineOK} =>
                      /\ event_queue' = Append(event_queue,
                            [type |-> "sms", by |-> <<"L", l>>, src |-> "line",
                             sender |-> << <<"8", "4">> >>, text |-> B])
                      /\ lpc'[l] = "store"
         /\ (/\ lpc[l] = "store" /\ lpc'[l] # "store" /\ lhdr[l] = LineCmt
             /\ lreads[l][Len(lreads[l])] \in {LineBody, LineOK})
              => /\ sms_store' = [sms_store EXCEPT ![lsess[l]] =
                       Append(@, [port |-> sport[lsess[l]],
                                  sender |-> << <<"8", "4">> >>,
                                  text |-> lreads[l][Len(lreads[l])]])]
                 /\ UNCHANGED event_queue]_vars

\* C9 witness: the header and the body Hi were read; the inbox holds the one
\* record and the one SmsEvent is the only line event published.
C9_Witness ==
    \E l \in ListenerIds :
        /\ lreads[l] = <<LineCmt, LineBody>>
        /\ sms_store[lsess[l]] =
             << [port |-> "COM3", sender |-> << <<"8", "4">> >>, text |-> LineBody] >>
        /\ Cardinality({i \in DOMAIN (observed \o event_queue) :
                          (observed \o event_queue)[i].src = "line"}) = 1

\* the events of the lines listener l has read, in order
RECURSIVE LineEventsOf(_, _)
LineEventsOf(l, q) ==
    IF q = <<>> THEN <<>>
    ELSE IF Head(q).by = <<"L", l>> /\ Head(q).src = "line"
         THEN <<Head(q)>> \o LineEventsOf(l, Tail(q))
         ELSE LineEventsOf(l, Tail(q))

\* the events the lines rs call for: a header takes the read after it as its
\* body and gives one SmsEvent, every other line gives one LogEvent
RECURSIVE ExpectedEvents(_, _)
ExpectedEvents(l, rs) ==
    IF rs = <<>> THEN <<>>
    ELSE IF StartsWith(Strip(Head(rs)), CmtTag)
         THEN IF Len(rs) = 1 THEN <<>>
              ELSE <<SmsEvent(<<"L", l>>, parse_cmt_header(Strip(rs[1])), Strip(rs[2]))>>
                     \o ExpectedEvents(l, SubSeq(rs, 3, Len(rs)))
         ELSE <<LogEvent(<<"L", l>>, "line", Prefix(sport[lsess[l]]) \o Strip(Head(rs)))>>
                \o ExpectedEvents(l, Tail(rs))

\* C10: what the GUI has observed, followed by what still waits in the queue,
\* holds for every listener that met no read fault exactly the events of the
\* non-blank lines it read, each once and in the order of the reads.
C10_EventsInOrderOnce ==
    \A l \in ListenerIds :
        (lpc[l] # "unborn" /\ ~lfault[l]) =>
            LineEventsOf(l, observed \o event_queue) = ExpectedEvents(l, lreads[l])

\* C10 witness: a listener read two lines without a fault and the GUI has
\* observed both of their events.
C10_Witness ==
    \E l \in ListenerIds :
        /\ ~lfault[l] /\ lreads[l] = <<LineOK, LineBody>>
        /\ Len(LineEventsOf(l, observed)) = 2
        /\ LineEventsOf(l, event_queue) = <<>>

\* C11: disconnect removes the session from the registry only after its
\* close() has completed: at the step that deletes the registry entry, and so
\* when disconnect returns, the deleted session's channel is closed.
C11_RemovedAfterClose ==
    [][\A t \in Threads :
         (pc[t] = "disc_del" /\ pc'[t] = "idle" /\ sessions'[cport[t]] = 0)
           => ~(ser'[cs[t]] # 0 /\ hopen'[ser'[cs[t]]])]_vars

\* no thread but t has made a call
OthersQuiet(t) ==
    \A u \in Threads \ {t} : pc[u] = "idle" /\ ret[u] = NoRet

\* the init commands written for session s, in the order the device got them
RECURSIVE InitWritesOf(_, _)
InitWritesOf(w, s) ==
    IF w = <<>> THEN <<>>
    ELSE IF Head(w).call = 0 /\ Head(w).sess = s
         THEN <<Head(w).data>> \o InitWritesOf(Tail(w), s)
         ELSE InitWritesOf(Tail(w), s)

\* C12: a connect(port) that follows disconnect(port) with no other call in
\* between gets a session object distinct from the disconnected one, created
\* with an empty inbox, no channel and no listener; when that connect returns
\* normally the new session has a newly opened channel, the four
\* initialization commands were written for it, and it has a new listener.
C12_ReconnectFresh ==
    [][\A t \in Threads :
         LET s0 == ret[t].sess
             p == ret[t].port
         IN (ret[t].op = "disconnect" /\ ret[t].res = "ok" /\ OthersQuiet(t)) =>
              /\ (pc[t] = "idle" /\ pc'[t] = "open_check" /\ cport'[t] = p)
                   => /\ cs'[t] # s0
                      /\ sessions'[p] = cs'[t]
                      /\ sms_store'[cs'[t]] = <<>>
                      /\ ser'[cs'[t]] = 0
                      /\ ~running'[cs'[t]]
                      /\ thread'[cs'[t]] = 0
              /\ (pc[t] \in {"open_check", "open_log"} /\ pc'[t] = "idle"
                    /\ ret'[t].res = "ok" /\ cport[t] = p)
                   => LET s == cs[t]
                      IN /\ s # s0
                         /\ ret'[t] = Ret("connect", p, "ok", s, 0)
                         /\ sms_store'[s] = <<>>
                         /\ ser'[s] # 0 /\ hopen'[ser'[s]] /\ ser'[s] # ser'[s0]
                         /\ hport'[ser'[s]] = p
                         /\ running'[s]
                         /\ thread'[s] # 0 /\ thread'[s] # thread'[s0]
                         /\ lsess'[thread'[s]] = s /\ lpc'[thread'[s]] # "unborn"
                         /\ InitWritesOf(wire'[p], s) =
                              [i \in 1..NInit |-> <<InitCommands[i], "\r\n">>]]_vars

\* C12 witness: one thread connected, disconnected and connected again: the
\* registry holds session 2, open and listening on its own handle and
\* listener, and session 1 is closed.
C12_Witness ==
    \E t \in Threads :
        /\ OthersQuiet(t)
        /\ ret[t] = Ret("connect", "COM3", "ok", 2, 0)
        /\ sessions["COM3"] = 2 /\ SerOpen(2) /\ running[2]
        /\ thread[1] # 0 /\ thread[2] # 0 /\ thread[2] # thread[1]
        /\ ~SerOpen(1) /\ ser[1] # 0 /\ ser[2] # ser[1]

\* C13: disconnect(port) on a port without a registered session is a no-op:
\* the registry is unchanged, no session's channel or running flag is touched
\* and no event is published.
C13_DisconnectMissingNoop ==
    [][\A t \in Threads, p \in Ports :
         (/\ pc[t] = "idle" /\ pc' = pc /\ opsLeft' = opsLeft - 1
          /\ OthersQuiet(t) /\ sessions[p] = 0
          /\ ret'[t].op = "disconnect" /\ ret'[t].port = p)
           => /\ ret'[t] = Ret("disconnect", p, "noop", 0, 0)
              /\ UNCHANGED <<sessions, mgrLock, nSessions, sport, ser, running, thread,
                             lock, sms_store, nHandles, hport, hopen, inbuf, wire,
                             lpc, event_queue, observed>>]_vars

\* C13 witness: a disconnect of COM3 found no session and returned; nothing
\* was created and nothing was published.
C13_Witness ==
    \E t \in Threads :
        /\ ret[t] = Ret("disconnect", "COM3", "noop", 0, 0)
        /\ sessions["COM3"] = 0 /\ nSessions = 0 /\ nHandles = 0
        /\ event_queue = <<>> /\ observed = <<>>

\* the listener thread of session s is not running
ListenerGone(s) == thread[s] = 0 \/ lpc[thread[s]] = "dead"

\* C14: close() on a session that is already closed (channel absent or not
\* open, running false, listener not running) changes no session state,
\* performs no channel operation and publishes no event.
C14_CloseClosedNoop ==
    [][\A t \in Threads :
         (/\ pc[t] \in {"close_flag", "close_ser"} /\ pc'[t] # pc[t]
          /\ ~SerOpen(cs[t]) /\ ~running[cs[t]] /\ ListenerGone(cs[t]))
           => UNCHANGED <<ser, running, thread, lock, sms_store, hopen, inbuf, wire,
                          event_queue>>]_vars

\* the positions of a caller inside ModemSession.open() and ModemSession.close()
InOpen == {"open_check", "open_serial", "init_write", "init_drain", "open_run", "open_log"}
InClose == {"close_flag", "close_ser"}

\* C15: the SessionManager lock is never held by a thread that is executing
\* ModemSession.open() or ModemSession.close().
C15_LockNotHeldAcrossOpenClose ==
    \A t \in Threads : mgrLock = t => pc[t] \notin InOpen \cup InClose

\* C16: a fault raised by a read inside a listener iteration is caught and
\* published as one LogEvent, and the loop goes on with its next iteration: no
\* caller sees it, and the listener ends only at its loop test, when the
\* running flag is false or the channel is not open.
C16_ListenerFaultContained ==
    [][\A l \in ListenerIds :
         /\ (/\ lpc[l] \in {"read", "body"} /\ lpc'[l] # lpc[l]
             /\ lreads'[l] = lreads[l]
             /\ (~SerOpen(lsess[l]) \/ faultsLeft' < faultsLeft))
              => /\ event_queue' = Append(event_queue,
                       LogEvent(<<"L", l>>, "sys",
                                Prefix(sport[lsess[l]]) \o <<"[LISTENER ERROR]">>))
                 /\ lpc'[l] = "check"
                 /\ UNCHANGED <<pc, ret, sessions, ser, running, thread, hopen, sms_store>>
         /\ (lpc[l] # "dead" /\ lpc'[l] = "dead")
              => /\ lpc[l] = "check"
                 /\ ~(running[lsess[l]] /\ SerOpen(lsess[l]))]_vars

\* C16 witness: a listener met an I/O fault on its open channel, its error
\* event is the last line event of the stream, and it is reading again on a
\* running session.
C16_Witness ==
    \E l \in ListenerIds :
        /\ lfault[l] /\ faultsLeft = 0
        /\ lpc[l] = "read" /\ running[lsess[l]] /\ SerOpen(lsess[l])
        /\ \E i \in DOMAIN (observed \o event_queue) :
              (observed \o event_queue)[i] =
                 LogEvent(<<"L", l>>, "sys", Prefix("COM3") \o <<"[LISTENER ERROR]">>)

C18_ListSessionsSnapshot ==
    [][\A t \in Threads :
         /\ (pc[t] = "idle" /\ pc'[t] = "idle" /\ ret'[t] # ret[t]
               /\ ret'[t].op = "list_sessions")
              => /\ ItemsAfter(ret'[t].keys) = {p \in Ports : sessions[p] # 0}
                 /\ UNCHANGED <<sessions, mgrLock>>
         /\ (ret[t].op = "list_sessions" /\ ret'[t] = ret[t])
              => ItemsAfter(ret[t].keys) = Items(ret[t].keys)]_vars

\* C18 witness: a thread holds a list returned while COM3 was registered, and
\* the port has since been removed from the registry.
C18_Witness ==
    \E t \in Threads :
        /\ ret[t].op = "list_sessions"
        /\ Items(ret[t].keys) = {"COM3"}
        /\ sessions["COM3"] = 0

\* line holds the +CMT: tag at i, then only whitespace up to an opening quote
\* at j, then a non-empty run without quotes up to the closing quote at k
QuotedSenderAt(line, i, j, k) ==
    /\ i + 4 <= Len(line) /\ SubSeq(line, i, i + 4) = CmtTag
    /\ i + 5 <= j /\ j + 1 < k /\ k <= Len(line)
    /\ \A x \in (i + 5)..(j - 1) : line[x] \in Whitespace
    /\ line[j] = Quote /\ line[k] = Quote
    /\ \A x \in (j + 1)..(k - 1) : line[x] # Quote

\* line holds the tag at i followed by a quoted sender
HasQuotedSender(line, i) ==
    \E j, k \in 1..Len(line) : QuotedSenderAt(line, i, j, k)

\* C20: parse_cmt_header returns, for a line in which the +CMT: tag is
\* followed by a quoted sender, exactly the text between the quotes of the
\* first such tag; for a line in which the tag is missing, or is not followed
\* by an opening and a closing quote around a sender, it returns none; it
\* returns on every line.
C20_ParseCmtHeader ==
    fn_out.done =>
        /\ \A i, j, k \in 1..Len(fn_in) :
              (/\ QuotedSenderAt(fn_in, i, j, k)
               /\ \A h \in 1..(i - 1) : ~HasQuotedSender(fn_in, h))
                => fn_out.val = <<SubSeq(fn_in, j + 1, k - 1)>>
        /\ (\A i \in 1..Len(fn_in) : ~HasQuotedSender(fn_in, i)) => fn_out.val = <<>>

\* C20 witness: the parser was called on  x+CMT: "84","x"  and returned 84,
\* the first quoted substring after the tag.
C20_Witness ==
    /\ fn_in = <<"x">> \o CmtTag \o <<" ", Quote, "8", "4", Quote, ",", Quote, "x", Quote>>
    /\ fn_out = Out(<< <<"8", "4">> >>)

\* main is inside a synchronous drain of its channel: in send_at (flush,
\* write, wait, drain) or in the timed drain that ends send_sms
OneComDraining ==
    {"oc_init_write", "oc_init_drain", "oc_cmgf_write", "oc_cmgf_drain", "oc_final_drain"}

\* C19: a synchronous drain of the channel never runs while a listener thread
\* is reading that same channel.
C19_DrainExcludesListener ==
    ~(/\ pc[MainThread] \in OneComDraining
      /\ lpc[SmsListener] \in {"oc_l_read", "oc_l_body"}
      /\ hopen[MainSer] /\ hport[MainSer] = PORT)

\* s split at every occurrence of the token sep
RECURSIVE SplitOn(_, _)
SplitOn(s, sep) ==
    LET at == {i \in 1..Len(s) : s[i] = sep}
    IN IF at = {} THEN <<s>>
       ELSE
         LET i == CHOOSE x \in at : \A y \in at : x <= y
         IN <<SubSeq(s, 1, i - 1)>> \o SplitOn(SubSeq(s, i + 1, Len(s)), sep)

\* the comma-separated fields that follow the first +CNUM: tag of a line
CnumFields(line) ==
    LET tags == {i \in 1..Len(line) : i + 5 <= Len(line) /\ SubSeq(line, i, i + 5) = CnumTag}
        i == CHOOSE x \in tags : \A y \in tags : x <= y
    IN SplitOn(SubSeq(line, i + 6, Len(line)), ",")

\* <<content>> of a field written between two quotes, <<>> for any other field
Unquote(field) ==
    LET f == Strip(field)
    IN IF /\ Len(f) >= 2 /\ f[1] = Quote /\ f[Len(f)] = Quote
          /\ \A x \in 2..(Len(f) - 1) : f[x] # Quote
       THEN <<SubSeq(f, 2, Len(f) - 1)>>
       ELSE <<>>

\* the +CNUM: lines of a response, in order
CnumLinesOf(resp) == SelectSeq(splitlines(resp), LAMBDA l : Contains(l, CnumTag))

\* <<content>> of the quoted number field (the second field) of a +CNUM: line
NumberField(line) ==
    IF Len(CnumFields(line)) >= 2 THEN Unquote(CnumFields(line)[2]) ELSE <<>>

\* the line's number field is quoted and holds more than blanks
HasNumber(line) == NumberField(line) # <<>> /\ Strip(NumberField(line)[1]) # <<>>

\* C21: for every response with a +CNUM: line whose second comma-separated
\* field is a non-empty quoted number, parse_cnum returns that field trimmed
\* (for the first such line), whatever the first field holds.
C21_ParseCnumSecondField ==
    fn_out.done =>
        \A k \in 1..Len(CnumLinesOf(fn_in)) :
            (/\ HasNumber(CnumLinesOf(fn_in)[k])
             /\ \A h \in 1..(k - 1) : ~HasNumber(CnumLinesOf(fn_in)[h]))
              => fn_out.val = <<Strip(NumberField(CnumLinesOf(fn_in)[k])[1])>>

\* C22: parse_cnum returns none when the quoted number field of every +CNUM:
\* line is empty or blank; it never returns the empty string, and what it
\* returns is the trimmed content of the number field of a +CNUM: line.
C22_ParseCnumEmptyIsNone ==
    fn_out.done =>
        /\ (\A k \in 1..Len(CnumLinesOf(fn_in)) : ~HasNumber(CnumLinesOf(fn_in)[k]))
              => fn_out.val = <<>>
        /\ fn_out.val # << <<>> >>
        /\ fn_out.val # <<>> =>
              \E k \in 1..Len(CnumLinesOf(fn_in)) :
                  /\ HasNumber(CnumLinesOf(fn_in)[k])
                  /\ fn_out.val = <<Strip(NumberField(CnumLinesOf(fn_in)[k])[1])>>

\* s is 84 followed by MinDigits to MaxDigits digits, or 0 followed by
\* MinDigits to MaxDigits digits
IsMsisdn(s) ==
    \/ /\ Len(s) \in (2 + MinDigits)..(2 + MaxDigits)
       /\ s[1] = "8" /\ s[2] = "4"
       /\ \A x \in 3..Len(s) : s[x] \in Digits
    \/ /\ Len(s) \in (1 + MinDigits)..(1 + MaxDigits)
       /\ s[1] = "0"
       /\ \A x \in 2..Len(s) : s[x] \in Digits

\* the substrings of s, as index pairs, that are such numbers
MsisdnSpans(s) ==
    {ij \in (1..Len(s)) \X (1..Len(s)) : ij[1] <= ij[2] /\ IsMsisdn(SubSeq(s, ij[1], ij[2]))}

C24_LogLineVerbatim ==
    [][\A l \in ListenerIds :
         (/\ lpc[l] = "read" /\ lreads'[l] # lreads[l]
          /\ ~StartsWith(Strip(Head(inbuf[sport[lsess[l]]])), CmtTag))
           => event_queue' = Append(event_queue,
                 LogEvent(<<"L", l>>, "line", Strip(Head(inbuf[sport[lsess[l]]]))))]_vars

\* C25: close() closes the channel only when no listener of its session is
\* inside a readline on it.
C25_CloseCooperative ==
    [][\A t \in Threads :
         (pc[t] = "close_ser" /\ pc'[t] # pc[t] /\ SerOpen(cs[t]))
           => \A l \in ListenerIds :
                 lsess[l] = cs[t] => lpc[l] \notin {"read", "body"}]_vars

\* C26: every event of the stream, observed or still queued, was put there by
\* a listener thread.
C26_SingleProducer ==
    \A i \in DOMAIN (observed \o event_queue) :
        (observed \o event_queue)[i].by[1] = "L"

\* the payloads written on wire w by send call c, in order
RECURSIVE CallData(_, _)
CallData(w, c) ==
    IF w = <<>> THEN <<>>
    ELSE IF Head(w).call = c THEN <<Head(w).data>> \o CallData(Tail(w), c)
         ELSE CallData(Tail(w), c)

\* C28: a send_sms call that returns normally has made exactly three writes,
\* in this order: AT+CMGF=1, AT+CMGS with the phone number, the text followed
\* by the one byte Ctrl-Z; none of its steps reads the channel; and when it
\* returns the session lock is not held.
C28_SendSmsThreeWrites ==
    [][\A t \in Threads :
         /\ (pc[t] \in {"sms_check", "sms_w1", "sms_w2", "sms_w3"} /\ pc'[t] # pc[t])
              => UNCHANGED <<inbuf, lreads>>
         /\ (pc[t] = "sms_w3" /\ pc'[t] = "idle" /\ ret'[t].res = "ok")
              => /\ \E phone \in Phones, text \in Texts :
                       CallData(wire'[cport[t]], ccall[t]) =
                          << <<"AT+CMGF=1", "\r">>,
                             <<"AT+CMGS=", Quote, phone, Quote, "\r">>,
                             <<text, "^Z">> >>
                 /\ ret'[t].op = "send_sms" /\ ret'[t].writes = 3
                 /\ lock'[cs[t]] = 0]_vars

\* C28 witness: send_sms has returned normally, its three writes are the last
\* on the wire, the lock is free and a line from the modem waits unread.
C28_Witness ==
    \E t \in Threads :
        /\ pc[t] = "idle" /\ ret[t].op = "send_sms" /\ ret[t].res = "ok"
        /\ Len(CallData(wire["COM3"], ccall[t])) = 3
        /\ lock[ret[t].sess] = 0
        /\ inbuf["COM3"] # <<>>

\* the writing halves of the command executors: send_at of scan_sim_ready.py
\* and send_at of scan_phone_number.py / scan_phone_number_ussd.py
ExecutorWrites ==
    {"ps_at_w", "ps_cpin_w", "pn_at_w", "pn_cnum_w", "pu_at_w", "pu_cpin_w", "pu_cscs_w"}

\* C27: a command executor writes its command once and has discarded the
\* stale input by then: after the write nothing that was in the input buffer
\* before it is left to be returned as the command's reply.
C27_ExecutorDiscardsStale ==
    [][(pc[MainThread] \in ExecutorWrites /\ wire' # wire)
         => /\ inbuf'[ProbePort] = <<>>
            /\ Len(wire'[ProbePort]) = Len(wire[ProbePort]) + 1]_vars

\* the codes of the AT+CUSD commands on wire w, in the order they were sent
RECURSIVE CusdCodes(_)
CusdCodes(w) ==
    IF w = <<>> THEN <<>>
    ELSE IF Head(w).data[1] = "AT+CUSD=1," THEN <<Head(w).data[3]>> \o CusdCodes(Tail(w))
         ELSE CusdCodes(Tail(w))

\* C29: the USSD probe sends the codes in list order; the first reply that
\* holds a number ends the loop, and phone_number, raw_ussd and used_ussd are
\* those of that code; when the probe returns without a number after the last
\* code, raw_ussd is the last non-empty reply (none if all were empty),
\* used_ussd is none and error is set.
C29_UssdFirstHit ==
    info.fn = "probe_port_for_number_with_ussd" =>
        LET n == Len(ussd_resps)
            sent == CusdCodes(wire[ProbePort])
            hits == {k \in 1..n : extract_msisdn_from_text(ussd_resps[k]) # <<>>}
            full == {k \in 1..n : ussd_resps[k] # <<>>}
        IN /\ Len(sent) <= Len(USSD_CODES) /\ sent = SubSeq(USSD_CODES, 1, Len(sent))
           /\ hits # {} =>
                /\ hits = {n} /\ Len(sent) = n /\ info.state = "returned"
                /\ info.phone_number = extract_msisdn_from_text(ussd_resps[n])
                /\ info.raw_ussd = <<ussd_resps[n]>>
                /\ info.used_ussd = <<USSD_CODES[n]>>
           /\ (hits = {} /\ info.state = "returned" /\ info.sim_ready
               /\ info.error # "runtime_error") =>
                /\ n = Len(USSD_CODES) /\ Len(sent) = n
                /\ info.phone_number = <<>> /\ info.used_ussd = <<>>
                /\ info.error = "Cannot extract phone"
                /\ info.raw_ussd =
                     IF full = {} THEN <<>>
                     ELSE <<ussd_resps[CHOOSE k \in full : \A j \in full : j <= k]>>

\* C29 witness: the first code was answered without a number, the second with
\* one; the probe returned the number with the second code and its reply.
C29_Witness ==
    /\ info.state = "returned" /\ info.used_ussd = <<"*888#">>
    /\ ussd_resps = <<LineUssdText, LineUssdNumber>>
    /\ info.raw_ussd = <<LineUssdNumber>> /\ info.phone_number = <<LineUssdNumber>>
    /\ CusdCodes(wire[ProbePort]) = <<"*0#", "*888#">>

\* C29 witness of the other case: no reply held a number and the last
\* non-empty reply came before the last code.
C29_WitnessNone ==
    /\ info.state = "returned" /\ info.error = "Cannot extract phone"
    /\ ussd_resps = <<LineUssdText, <<>>, <<>> >>

C31_OpenSessionsRegistered ==
    \A s \in 1..nSessions :
        (SerOpen(s) \/ running[s]) => sessions[sport[s]] = s

\* the listener threads of session s that have been started and have not ended
LiveListeners(s) ==
    {l \in ListenerIds : lsess[l] = s /\ lpc[l] \notin {"unborn", "dead"}}

\* C32: a session never has more than one live listener thread, and it takes
\* a new channel handle only while it holds no open one, also when two
\* threads call connect for the same unregistered port at the same time.
C32_OneListenerOneChannel ==
    /\ [](\A s \in SessIds : Cardinality(LiveListeners(s)) <= 1)
    /\ [][\A s \in SessIds : ser'[s] # ser[s] => ~SerOpen(s)]_vars

\* C33: whenever connect(port) returns normally, the returned session has an
\* open channel, its running flag set and a started listener thread; this
\* holds as well for a connect that is retried after an earlier connect on
\* the port failed.
C33_ConnectReturnsListening ==
    [][\A t \in Threads :
         (/\ pc[t] # "idle" /\ pc'[t] = "idle"
          /\ ret'[t].op = "connect" /\ ret'[t].res = "ok")
           => LET s == ret'[t].sess
              IN /\ ser'[s] # 0 /\ hopen'[ser'[s]]
                 /\ running'[s]
                 /\ thread'[s] # 0]_vars

\* the inbox records of the SmsEvents in q that listeners of session s published
RECURSIVE SmsRecordsOf(_, _)
SmsRecordsOf(s, q) ==
    IF q = <<>> THEN <<>>
    ELSE IF Head(q).type = "sms" /\ lsess[Head(q).by[2]] = s
         THEN <<[port |-> sport[s], sender |-> Head(q).sender, text |-> Head(q).text]>>
                \o SmsRecordsOf(s, Tail(q))
         ELSE SmsRecordsOf(s, Tail(q))

\* no listener of session s is inside _push_sms
BetweenIterations(s) == \A l \in ListenerIds : lsess[l] = s => lpc[l] # "store"

\* C34: between listener iterations the inbox of a session holds one record
\* per SmsEvent published for it, in the order of publication and with the
\* same sender and text; the inbox changes only by an append at its end.
C34_InboxMirrorsSmsEvents ==
    /\ [](\A s \in 1..nSessions :
            BetweenIterations(s)
              => sms_store[s] = SmsRecordsOf(s, observed \o event_queue))
    /\ [][\A s \in SessIds :
            sms_store'[s] # sms_store[s]
              => /\ Len(sms_store'[s]) = Len(sms_store[s]) + 1
                 /\ SubSeq(sms_store'[s], 1, Len(sms_store[s])) = sms_store[s]]_vars

\* listener l has been started and has not ended
Live(l) == lpc[l] \notin {"unborn", "dead"}

\* close() has been called on the session of the live listener l
CloseCalled(l) ==
    \E t \in Threads : pc[t] = "close_flag" /\ cs[t] = lsess[l] /\ Live(l)

\* the events that listener l has published
RECURSIVE EventsBy(_, _)
EventsBy(l, q) ==
    IF q = <<>> THEN <<>>
    ELSE IF Head(q).by = <<"L", l>> THEN <<Head(q)>> \o EventsBy(l, Tail(q))
         ELSE EventsBy(l, Tail(q))

StoppedEvent(l) ==
    LogEvent(<<"L", l>>, "sys", Prefix(sport[lsess[l]]) \o <<"[LISTENER] Stopped.">>)

\* C35: after close() is called on a session with a live listener, the
\* listener eventually ends; a listener that has ended has published its
\* Stopped event exactly once, as its last event, and reads and publishes
\* nothing more.
C35_ListenerStopsAfterClose ==
    /\ \A l \in ListenerIds : CloseCalled(l) ~> (lpc[l] = "dead")
    /\ [](\A l \in ListenerIds :
            LET evs == EventsBy(l, observed \o event_queue)
            IN has_queue =>
               /\ Cardinality({i \in DOMAIN evs : evs[i] = StoppedEvent(l)})
                      = IF lpc[l] = "dead" THEN 1 ELSE 0
               /\ lpc[l] = "dead" => evs[Len(evs)] = StoppedEvent(l))
    /\ [][\A l \in ListenerIds :
            lpc[l] = "dead" => /\ lpc'[l] = "dead"
                               /\ lreads'[l] = lreads[l]]_vars

\* the sender that the header H carries: 84 in quotes, or none
CmtSenderOf(H) == IF H = LineCmt THEN << <<"8", "4">> >> ELSE <<>>

\* C36: a line beginning with +CMT: that a listener reads publishes nothing
\* by itself and is followed by exactly one further read; whatever that read
\* returns (a line, a blank line, or nothing on a timeout), exactly one
\* SmsEvent is published, with the header's sender (absent when there is no
\* quoted sender) and the stripped read as text (empty on a timeout or a
\* blank line); a line that arrives after it is read as an ordinary line and
\* published as a LogEvent, the SmsEvent staying as it was.
C36_CmtTakesOneRead ==
    [][\A l \in ListenerIds :
         LET p == sport[lsess[l]]
             got == IF inbuf[p] = <<>> THEN <<>> ELSE Head(inbuf[p])
             rest == IF inbuf[p] = <<>> THEN <<>> ELSE Tail(inbuf[p])
         IN /\ (lpc[l] = "read" /\ lreads'[l] # lreads[l])
                 => IF StartsWith(Strip(got), CmtTag)
                    THEN /\ lpc'[l] = "body"
                         /\ lhdr'[l] = Strip(got)
                         /\ UNCHANGED <<event_queue, sms_store>>
                    ELSE /\ lpc'[l] = "check"
                         /\ event_queue' = Append(event_queue,
                               LogEvent(<<"L", l>>, "line", Prefix(p) \o Strip(got)))
                         /\ UNCHANGED sms_store
            /\ (lpc[l] = "body" /\ lreads'[l] # lreads[l])
                 => /\ lhdr[l] \in {LineCmt, LineCmtNoSender}
                    /\ inbuf'[p] = rest
                    /\ Len(lreads'[l]) = Len(lreads[l]) + 1
                    /\ event_queue' = Append(event_queue,
                          [type |-> "sms", by |-> <<"L", l>>, src |-> "line",
                           sender |-> CmtSenderOf(lhdr[l]), text |-> Strip(got)])
                    /\ lpc'[l] = "store"
            /\ (lpc[l] = "store" /\ lpc'[l] # "store")
                 => /\ lpc'[l] = "check"
                    /\ UNCHANGED <<event_queue, inbuf, lreads>>]_vars

\* C36 witness: a listener read a header without a quoted sender, its body
\* read timed out, and the body Hi that came later was read as a line: its
\* line events are the SmsEvent with absent sender and empty text and then
\* the LogEvent of Hi.
C36_Witness ==
    \E l \in ListenerIds :
        /\ lreads[l] = <<LineCmtNoSender, <<>>, LineBody>>
        /\ LineEventsOf(l, observed \o event_queue)
             = << SmsEvent(<<"L", l>>, <<>>, <<>>),
                  LogEvent(<<"L", l>>, "line", Prefix(sport[lsess[l]]) \o LineBody) >>
        /\ sms_store[lsess[l]] = << [port |-> "COM3", sender |-> <<>>, text |-> <<>>] >>

====
